---- MODULE Spec2Model ----
(***************************************************************************)
(* Ingest-decode-cache pipeline of the Solana price monitor.               *)
(*                                                                         *)
(* Two tasks are modelled: the WebSocketManager task (run loop with        *)
(* backoff, connect, subscribe, read and forward) and the main event loop  *)
(* (which drains the ingest channel and runs process_message on every      *)
(* payload).  They communicate through the bounded mpsc channel only.      *)
(*                                                                         *)
(* Representation of values                                                *)
(*   f64      [cls |-> "fin", v |-> n] for the finite value n (the sampled *)
(*            inputs all have integral results), [cls |-> "inf", v |-> 0]  *)
(*            for +infinity.  The price computations cannot produce NaN or *)
(*            a negative value (all operands are non-negative, the powi    *)
(*            base is >= 1).                                               *)
(*   fee_rate parts per million (0.0025 is 2500).                          *)
(*   percent  the percentages of the configuration and of the detectors    *)
(*            are held in units of 0.0001 % (0.3 % is 3000), so that a     *)
(*            fee_rate in ppm is fee_rate * 100 in the same unit; the      *)
(*            detectors compute with exact fractions num/den.              *)
(*   time     milliseconds; timestamps are readings of the clock `now`,    *)
(*            which never runs backwards, so an age is never negative and  *)
(*            the cast of num_milliseconds() to u64 keeps its value.       *)
(*   bytes    a base64-decoded account buffer is a record whose "layout"   *)
(*            names the one borsh layout whose length it has ("junk" for   *)
(*            any other length) together with the fields of that layout.   *)
(*   text     a text frame is a record naming its JSON shape.              *)
(***************************************************************************)
EXTENDS Integers, Sequences, FiniteSets, TLC

VARIABLES
    settings_pools,       \* settings.pools, flattened: the configured pools in main's order
    hashOrder,            \* WebSocketManager.subscriptions: iteration order of the HashSet
    wsPc,                 \* position of the WebSocketManager task
    reconnect_attempts,   \* WebSocketManager.reconnect_attempts
    lastDelay,            \* ms slept at the top of the current run-loop iteration (0: no sleep)
    lastEnd,              \* how the previous connect_and_listen call ended
    sentReqs,             \* accountSubscribe requests written in the current session
    held,                 \* text frame read from the transport, not yet in the channel
    nRecv,                \* text frames read from the transport so far
    chan,                 \* the mpsc channel between the two tasks
    mainPc,               \* position of the main event loop
    subscription_id_map,  \* main: server subscription id -> pubkey
    mapCur,               \* per map entry: its ack was read in the session now open
    cache,                \* PriceCache.data: pair -> (dex -> PriceData)
    cacheSeq,             \* per cache entry: arrival number of the notification it holds
    validSeq,             \* per (pair, dex): arrival number of the last notification
                          \* that was routed there and had a finite price > 0
    now,                  \* wall clock (ms)
    lastStep,             \* what the last process_message call did
    settings,             \* settings.monitoring, settings.arbitrage and settings.fees
    lastOp,               \* the last PriceCache or detector call and what it returned
    stat_config,          \* StatisticalArbitrageDetector.config
    pair_stats,           \* StatisticalArbitrageDetector.pair_stats: "a:b" -> PairStatistics
    spreadLog,            \* per pair_stats key: every spread handed to update, in order
    statCalls,            \* calls of StatisticalArbitrageDetector::detect so far
    api_sent,             \* broadcast channel: messages stored so far (positions 1..api_sent)
    api_rx,               \* broadcast channel: per client of /ws, its receiver
    shard_lock,           \* PriceCache.data: per shard of the outer DashMap, who holds its lock
    callers               \* the task inside PriceCache::set and the one inside
                          \* cleanup_stale_entries, each with its position

wsVars   == <<settings_pools, hashOrder, wsPc, reconnect_attempts, lastDelay, lastEnd, sentReqs, held, nRecv>>
mainVars == <<mainPc, subscription_id_map, mapCur, cache, cacheSeq, validSeq, lastStep>>
statVars == <<stat_config, pair_stats, spreadLog, statCalls>>
raceVars == <<shard_lock, callers>>
sideVars == <<api_sent, api_rx, raceVars>>
detVars  == <<settings, lastOp, stat_config, pair_stats, spreadLog, statCalls, sideVars>>
vars     == <<settings_pools, hashOrder, wsPc, reconnect_attempts, lastDelay, lastEnd, sentReqs, held,
              nRecv, chan, mainPc, subscription_id_map, mapCur, cache, cacheSeq, validSeq,
              now, lastStep, settings, lastOp, stat_config, pair_stats, spreadLog, statCalls,
              api_sent, api_rx, shard_lock, callers>>

----------------------------------------------------------------------------
(* Bounds of the exploration *)

ChannelCapacity == 2     \* mpsc::channel(1000), scaled to the exploration
MaxAttempts == 10        \* largest reconnect_attempts explored by the backoff specification
MaxFailures == 1         \* largest reconnect_attempts explored together with the pipeline

MaxTicks == 4            \* clock readings (beyond the first) explored by the cache specification
MaxDetectTicks == 2      \* clock readings (beyond the first) explored by the detector specification

\* text frames the transport delivers in one behaviour: enough to fill the
\* channel and leave the producer waiting with one more
MaxMsgs == ChannelCapacity + 1

----------------------------------------------------------------------------
(* Configuration: settings.pools, flattened by main *)

Pool(pubkey, pair, dex) == [pubkey |-> pubkey, pair |-> pair, dex |-> dex]

\* the Vec main builds from settings.pools and hands to process_message
subscriptions == [i \in DOMAIN settings_pools |-> settings_pools[i].pubkey]

\* dex.to_lowercase(), on the venue names the configurations here use
ToLowercase(dex) == IF dex = "Orca" THEN "orca" ELSE dex

\* the match on dex.to_lowercase() in main
DecoderTypeOf(dex) ==
    LET lower == ToLowercase(dex)
    IN  CASE lower = "raydium" -> "Raydium"
          [] lower = "orca"    -> "Orca"
          [] lower = "meteora" -> "Meteora"
          [] OTHER             -> "Raydium"

\* pubkey -> PoolInfo
pool_lookup ==
    [pk \in {settings_pools[i].pubkey : i \in DOMAIN settings_pools} |->
        LET p == CHOOSE q \in {settings_pools[i] : i \in DOMAIN settings_pools} : q.pubkey = pk
        IN  [pair |-> p.pair, dex |-> p.dex, decoder_type |-> DecoderTypeOf(p.dex)]]

NumPools == Len(settings_pools)

Range(s) == {s[i] : i \in DOMAIN s}

\* every order in which a HashSet holding the pubkeys can iterate
HashSetOrders(pks) ==
    {o \in [1..Cardinality(pks) -> pks] : \A i, j \in DOMAIN o : o[i] = o[j] => i = j}

----------------------------------------------------------------------------
(* Configuration: settings.monitoring, settings.arbitrage, settings.fees *)

\* percentages are held in units of 0.0001 %
Settings(cache_ttl_seconds, stale_threshold_ms, min_profit_percent, slot_tolerance) ==
    [monitoring |-> [max_pools |-> 50,
                     cache_ttl_seconds |-> cache_ttl_seconds,
                     stale_threshold_ms |-> stale_threshold_ms],
     arbitrage  |-> [min_profit_percent |-> min_profit_percent,
                     slot_tolerance |-> slot_tolerance],
     fees       |-> [estimated_slippage |-> 3000,
                     gas_cost_percent |-> 100,
                     jito_tip_percent |-> 500]]

\* Settings::default(): ttl 60 s, stale after 2000 ms, min profit 0.5 %, tolerance 2 slots
DefaultSettings == Settings(60, 2000, 5000, 2)

\* the settings with another monitoring.max_pools
WithMaxPools(s, max_pools) == [s EXCEPT !.monitoring.max_pools = max_pools]

\* Settings::validate, the checks on the modelled fields (the only check on
\* max_pools is that it is not 0; the pool list is not looked at)
Validate(s) ==
    /\ s.monitoring.max_pools # 0
    /\ s.arbitrage.min_profit_percent > 0

\* no PriceCache or detector call yet
NoOp == [op |-> "none"]

----------------------------------------------------------------------------
(* f64 values *)

Fin(n) == [cls |-> "fin", v |-> n]
Inf == [cls |-> "inf", v |-> 0]

\* x > 0.0
F64Positive(x) == x.cls = "inf" \/ x.v > 0

\* is_finite() && > 0.0
F64FinitePositive(x) == x.cls = "fin" /\ x.v > 0

\* binary64: 2^n overflows to +infinity from n = 1024 (f64::MAX_EXP) on and
\* is 0.0 below the smallest subnormal 2^-1074
F64_MAX_EXP == 1024
F64_MIN_SUBNORMAL_EXP == -1074

RECURSIVE Pow(_, _)
Pow(b, n) == IF n = 0 THEN 1 ELSE b * Pow(b, n - 1)

\* x * k for an integral factor k >= 1 (the decimal adjustment)
F64MulInt(x, k) == IF x.cls = "inf" THEN Inf ELSE Fin(x.v * k)

\* base.powi(n) for base = 1.0 + bin_step / 10000.0; defined for the bases 1.0
\* and 2.0 (bin_step 0 and 10000), whose powers binary64 holds exactly
F64Powi(bin_step, n) ==
    CASE bin_step = 0 \/ n = 0                           -> Fin(1)
      [] bin_step = 10000 /\ n >= F64_MAX_EXP            -> Inf
      [] bin_step = 10000 /\ n < F64_MIN_SUBNORMAL_EXP   -> Fin(0)
      [] bin_step = 10000 /\ n > 0 /\ n < 16             -> Fin(Pow(2, n))

----------------------------------------------------------------------------
(* Decoders: bytes -> PoolState or failure *)

U64Bits == 4              \* width of a u64, scaled to the exploration
U64 == Pow(2, U64Bits)    \* 2^64

DecodeErr == [ok |-> FALSE]

\* a panic of the decoding thread (a slice index out of range)
DecodePanic == [ok |-> FALSE, panic |-> TRUE]

\* a buffer that holds the bytes of `data` followed by `extra` >= 1 more bytes
Trailing(data, extra) == [layout |-> "trailing", record |-> data, extra |-> extra]

\* a buffer that holds only the first `len` bytes of the buffer `data`, with
\* len below the borsh size of every layout
Truncated(data, len) == [layout |-> "truncated", record |-> data, len |-> len]

\* size of the Anchor discriminator in front of a Whirlpool or LbPair account
DiscriminatorLen == 8

\* borsh sizes of RaydiumAmmInfo, WhirlpoolState and LbPairState
StructLen(layout) ==
    CASE layout = "amm"  -> 272
      [] layout = "clmm" -> 229
      [] layout = "dlmm" -> 896

RECURSIVE DataLen(_)
\* data.len()
DataLen(data) ==
    CASE data.layout = "amm"       -> StructLen("amm")
      [] data.layout = "clmm"      -> DiscriminatorLen + StructLen("clmm")
      [] data.layout = "dlmm"      -> DiscriminatorLen + StructLen("dlmm")
      [] data.layout = "trailing"  -> DataLen(data.record) + data.extra
      [] data.layout = "truncated" -> data.len

\* a length check that lets every buffer through
TooShort_Never(data) == FALSE

\* data.len() < 8
TooShort(data) == DataLen(data) < DiscriminatorLen

\* &data[n..]: panics when n is beyond the end of the buffer
SliceFrom(data, n) ==
    IF DataLen(data) < n THEN [layout |-> "panic"]
    ELSE IF data.layout = "truncated" THEN Truncated(data.record, data.len - n)
    ELSE data

\* BorshDeserialize::deserialize for the struct with the given layout: reads
\* the struct from the front of the buffer and leaves the rest; fails when
\* the buffer ends before the struct does
Deserialize(layout, data) ==
    IF data.layout = layout THEN [ok |-> TRUE, v |-> data, remaining |-> 0]
    ELSE IF data.layout = "trailing" /\ data.record.layout = layout
         THEN [ok |-> TRUE, v |-> data.record, remaining |-> data.extra]
         ELSE [ok |-> FALSE]

\* BorshDeserialize::try_from_slice: deserialize, then fail with "Not all
\* bytes read" unless the buffer is used up
TryFromSlice(layout, data) ==
    LET result == Deserialize(layout, data)
    IN  IF result.ok /\ result.remaining = 0 THEN [ok |-> TRUE, v |-> result.v] ELSE [ok |-> FALSE]

\* RaydiumDecoder::decode: borsh try_from_slice over the whole buffer
RaydiumDecode(data) ==
    LET amm_info == TryFromSlice("amm", data)
    IN  IF ~amm_info.ok THEN DecodeErr
        ELSE [ok |-> TRUE,
              token_a_reserve |-> amm_info.v.coin_vault_balance,
              token_b_reserve |-> amm_info.v.pc_vault_balance,
              token_a_decimals |-> amm_info.v.coin_decimals % 256,
              token_b_decimals |-> amm_info.v.pc_decimals % 256,
              fee_rate |-> 2500,
              liquidity |-> 0,
              specific_data |-> [tag |-> "Amm",
                                 coin_vault_balance |-> amm_info.v.coin_vault_balance,
                                 pc_vault_balance |-> amm_info.v.pc_vault_balance]]

\* OrcaDecoder::decode (default decimals 9 and 6): checks the length, skips
\* the discriminator, then try_from_slice over the rest
OrcaDecode(data) ==
    IF TooShort(data) THEN DecodeErr
    ELSE LET sliced == SliceFrom(data, DiscriminatorLen)
             whirlpool == TryFromSlice("clmm", sliced)
         IN  IF sliced.layout = "panic" THEN DecodePanic
             ELSE IF ~whirlpool.ok THEN DecodeErr
             ELSE [ok |-> TRUE,
                   token_a_reserve |-> 0,
                   token_b_reserve |-> 0,
                   token_a_decimals |-> 9,
                   token_b_decimals |-> 6,
                   fee_rate |-> whirlpool.v.fee_rate * 100,
                   liquidity |-> whirlpool.v.liquidity,
                   specific_data |-> [tag |-> "Clmm",
                                      sqrt_price |-> whirlpool.v.sqrt_price,
                                      liquidity |-> whirlpool.v.liquidity]]

\* MeteoraDecoder::calculate_fee_rate: bin_step * base_factor / 1e10, in ppm
calculate_fee_rate(bin_step, base_factor) == (bin_step * base_factor) \div 10000

\* MeteoraDecoder::decode (default decimals 9 and 6): checks the length,
\* skips the discriminator, then try_from_slice over the rest
MeteoraDecode(data) ==
    IF TooShort(data) THEN DecodeErr
    ELSE LET sliced == SliceFrom(data, DiscriminatorLen)
             lb_pair == TryFromSlice("dlmm", sliced)
         IN  IF sliced.layout = "panic" THEN DecodePanic
             ELSE IF ~lb_pair.ok THEN DecodeErr
             ELSE [ok |-> TRUE,
                   token_a_reserve |-> 0,
                   token_b_reserve |-> 0,
                   token_a_decimals |-> 9,
                   token_b_decimals |-> 6,
                   fee_rate |-> calculate_fee_rate(lb_pair.v.bin_step, lb_pair.v.base_factor),
                   liquidity |-> 0,
                   specific_data |-> [tag |-> "Dlmm",
                                      active_id |-> lb_pair.v.active_id,
                                      bin_step |-> lb_pair.v.bin_step,
                                      base_factor |-> lb_pair.v.base_factor]]

\* the match on pool_info.decoder_type in process_message
Decode(decoder_type, data) ==
    CASE decoder_type = "Raydium" -> RaydiumDecode(data)
      [] decoder_type = "Orca"    -> OrcaDecode(data)
      [] decoder_type = "Meteora" -> MeteoraDecode(data)

----------------------------------------------------------------------------
(* Price calculation *)

\* calculate_amm_price: (reserve_out / 10^dec_out) / (reserve_in / 10^dec_in)
calculate_amm_price(reserve_in, reserve_out, decimals_in, decimals_out) ==
    IF reserve_in = 0 THEN Fin(0)
    ELSE Fin((reserve_out * Pow(10, decimals_in)) \div (reserve_in * Pow(10, decimals_out)))

\* the match on pool_state.specific_data in process_message.  sqrt_price is
\* held in units of 2^64 (Q64.64 with a zero fraction).
CalculatePrice(st) ==
    CASE st.specific_data.tag = "Amm" ->
            calculate_amm_price(st.specific_data.coin_vault_balance,
                                st.specific_data.pc_vault_balance,
                                st.token_a_decimals, st.token_b_decimals)
      [] st.specific_data.tag = "Clmm" ->
            F64MulInt(Fin(st.specific_data.sqrt_price * st.specific_data.sqrt_price),
                      Pow(10, st.token_a_decimals - st.token_b_decimals))
      [] st.specific_data.tag = "Dlmm" ->
            F64MulInt(F64Powi(st.specific_data.bin_step, st.specific_data.active_id),
                      Pow(10, st.token_a_decimals - st.token_b_decimals))

\* a PriceData that does not take the notification's slot
NewPriceData_SlotZero(price, st, slot, t) ==
    [price |-> price,
     liquidity |-> st.liquidity % U64,
     slot |-> 0,
     timestamp |-> t,
     vault_a_balance |-> st.token_a_reserve,
     vault_b_balance |-> st.token_b_reserve,
     fee_rate |-> st.fee_rate]

\* a PriceData whose liquidity is clamped to u64::MAX
NewPriceData_Saturating(price, st, slot, t) ==
    [price |-> price,
     liquidity |-> IF st.liquidity >= U64 THEN U64 - 1 ELSE st.liquidity,
     slot |-> slot,
     timestamp |-> t,
     vault_a_balance |-> st.token_a_reserve,
     vault_b_balance |-> st.token_b_reserve,
     fee_rate |-> st.fee_rate]

\* PriceData::new as called by process_message
NewPriceData(price, st, slot, t) ==
    [price |-> price,
     liquidity |-> st.liquidity % U64,
     slot |-> slot,
     timestamp |-> t,
     vault_a_balance |-> st.token_a_reserve,
     vault_b_balance |-> st.token_b_reserve,
     fee_rate |-> st.fee_rate]

----------------------------------------------------------------------------
(* Text frames and account data the server can send *)

SubIds == {1, 2}      \* server subscription ids
NotU64 == -1          \* a "result" that as_u64() rejects

Garbage == [kind |-> "garbage"]
Ack(id, result) == [kind |-> "ack", id |-> id, result |-> result]
Notification(sub, slot, data) == [kind |-> "notification", sub |-> sub, slot |-> slot, data |-> data]

NotBase64 == [layout |-> "not_base64"]
AmmRecord(coin, pc, cdec, pdec) ==
    [layout |-> "amm", coin_vault_balance |-> coin, pc_vault_balance |-> pc,
     coin_decimals |-> cdec, pc_decimals |-> pdec]
ClmmRecord(sqrt_price, liquidity, fee_rate) ==
    [layout |-> "clmm", sqrt_price |-> sqrt_price, liquidity |-> liquidity, fee_rate |-> fee_rate]
DlmmRecord(active_id, bin_step, base_factor) ==
    [layout |-> "dlmm", active_id |-> active_id, bin_step |-> bin_step, base_factor |-> base_factor]

ClmmOk == ClmmRecord(2, U64 + 1, 30)        \* price 4 * 10^3, liquidity above u64
ClmmZero == ClmmRecord(0, 5, 30)            \* sqrt_price 0: price 0
DlmmOk == DlmmRecord(1, 10000, 10000)       \* price 2 * 10^3
DlmmInf == DlmmRecord(1100, 10000, 10000)   \* 2^1100 overflows binary64

\* frames of the routing specification: every acknowledgement and, per
\* subscription id, one good account record of each configured venue
Texts ==
    {Ack(id, s) : id \in 1..2, s \in SubIds}
    \cup {Notification(s, 7, d) : s \in SubIds, d \in {ClmmOk, DlmmOk}}

\* frames of the price specification: one subscription id, every kind of payload
PriceTexts ==
    {Garbage, Ack(1, 1), Ack(2, 1)}
    \cup {Notification(1, 9, d) : d \in {NotBase64, ClmmOk, ClmmZero, DlmmOk, DlmmInf}}

----------------------------------------------------------------------------
(* process_message *)

NoStep == [seq |-> 0, outcome |-> "none", published |-> <<>>, scanned |-> "none"]

\* result of one call: the outcome, the new subscription map (with its
\* session marks), the new cache, what went out on the broadcast topic, the
\* pair handed to scan_opportunities and the quote computed on the way
Result(outcome, map, cur, cch, published, scanned, quote) ==
    [outcome |-> outcome, map |-> map, cur |-> cur, cache |-> cch,
     published |-> published, scanned |-> scanned, quote |-> quote]

NoQuote == [key |-> <<>>, price |-> Fin(0)]

Unchanged(outcome) == Result(outcome, subscription_id_map, mapCur, cache, <<>>, "none", NoQuote)

\* HashMap::insert
MapInsert(map, k, v) == [x \in (DOMAIN map) \cup {k} |-> IF x = k THEN v ELSE map[x]]

\* a lookup that falls back to some known entry when the key is missing
MapGet_Fallback(map, k) ==
    IF k \in DOMAIN map THEN [some |-> TRUE, v |-> map[k]]
    ELSE IF DOMAIN map = {} THEN [some |-> FALSE]
    ELSE [some |-> TRUE, v |-> map[CHOOSE x \in DOMAIN map : TRUE]]

\* HashMap::get
MapGet(map, k) == IF k \in DOMAIN map THEN [some |-> TRUE, v |-> map[k]] ELSE [some |-> FALSE]

\* a set that keeps the entry already stored (or_insert instead of insert)
CacheSet_KeepFirst(cch, pair, dex, price_data) ==
    IF pair \in DOMAIN cch /\ dex \in DOMAIN cch[pair] THEN cch
    ELSE MapInsert(cch, pair, MapInsert(IF pair \in DOMAIN cch THEN cch[pair] ELSE <<>>, dex, price_data))

\* PriceCache::set: entry(pair).or_insert_with(DashMap::new).insert(dex, price_data)
CacheSet(cch, pair, dex, price_data) ==
    MapInsert(cch, pair, MapInsert(IF pair \in DOMAIN cch THEN cch[pair] ELSE <<>>, dex, price_data))

\* the subscription confirmation branch.  id - 1 is a u64 subtraction: for
\* id = 0 it panics when the build checks overflow and wraps otherwise.
ProcessAck(m, overflow_checks) ==
    LET id == m.body.id
        result == m.body.result
    IN  IF id = 0 /\ overflow_checks THEN Unchanged("panic")
        ELSE IF id >= 1 /\ id - 1 < Len(subscriptions) /\ result # NotU64
        THEN Result("ack_recorded",
                    MapInsert(subscription_id_map, result, subscriptions[id]),
                    MapInsert(mapCur, result, m.cur),
                    cache, <<>>, "none", NoQuote)
        ELSE Unchanged("ack_ignored")

\* base64 decode of data[0]
Base64Decode(data) == IF data.layout = "not_base64" THEN [ok |-> FALSE] ELSE [ok |-> TRUE, bytes |-> data]

\* the check that guards the cache write
PriceAccepted(price) == F64Positive(price)

\* the accountNotification branch
ProcessNotification(m) ==
    LET sub_id == m.body.sub
        slot == m.body.slot
        pubkey == MapGet(subscription_id_map, sub_id)
    IN  IF ~pubkey.some THEN Unchanged("unknown_subscription")
        ELSE
          LET info == MapGet(pool_lookup, pubkey.v)
              decoded == Base64Decode(m.body.data)
          IN  IF ~info.some THEN Unchanged("unknown_pool")
              ELSE IF ~decoded.ok THEN Unchanged("err_base64")
              ELSE
                LET pool_info == info.v
                    pool_state == Decode(pool_info.decoder_type, decoded.bytes)
                IN  IF ~pool_state.ok THEN Unchanged("err_decode")
                    ELSE
                      LET price == CalculatePrice(pool_state)
                          quote == [key |-> <<pool_info.pair, pool_info.dex>>, price |-> price]
                      IN  IF PriceAccepted(price)
                          THEN Result("written", subscription_id_map, mapCur,
                                      CacheSet(cache, pool_info.pair, pool_info.dex,
                                               NewPriceData(price, pool_state, slot, now)),
                                      << [type |-> "PriceUpdate", pair |-> pool_info.pair,
                                          dex |-> pool_info.dex, price |-> price, slot |-> slot] >>,
                                      pool_info.pair, quote)
                          ELSE Result("price_rejected", subscription_id_map, mapCur, cache,
                                      <<>>, "none", quote)

process_message(m, overflow_checks) ==
    CASE m.body.kind = "garbage"      -> Unchanged("err_json")
      [] m.body.kind = "ack"          -> ProcessAck(m, overflow_checks)
      [] m.body.kind = "notification" -> ProcessNotification(m)

\* a loop that propagates the Err of process_message with `?`
AfterMessage_Propagate(outcome) ==
    CASE outcome = "panic" -> "panicked"
      [] outcome \in {"err_json", "err_base64", "err_decode"} -> "stopped"
      [] OTHER -> "running"

\* the handling of process_message's result in the select! loop: an Err is
\* logged at debug level and the loop goes on; a panic unwinds main
AfterMessage(outcome) == IF outcome = "panic" THEN "panicked" ELSE "running"

----------------------------------------------------------------------------
(* WebSocketManager task *)

Min(a, b) == IF a < b THEN a ELSE b

\* the delay computed at the top of the run loop
ReconnectDelay(attempts) == Min(100 * Pow(2, Min(attempts, 8)), 30000)

\* a run loop that reconnects only while no attempt has failed
Backoff_GiveUp ==
    /\ wsPc = "top"
    /\ reconnect_attempts = 0
    /\ lastDelay' = 0
    /\ wsPc' = "connect"
    /\ UNCHANGED <<settings_pools, hashOrder, reconnect_attempts, lastEnd, sentReqs, held, nRecv, chan, now>>
    /\ UNCHANGED mainVars
    /\ UNCHANGED detVars

\* top of the run loop: compute the delay, sleep when attempts > 0
Backoff ==
    /\ wsPc = "top"
    /\ lastDelay' = IF reconnect_attempts > 0 THEN ReconnectDelay(reconnect_attempts) ELSE 0
    /\ wsPc' = "connect"
    /\ UNCHANGED <<settings_pools, hashOrder, reconnect_attempts, lastEnd, sentReqs, held, nRecv, chan, now>>
    /\ UNCHANGED mainVars
    /\ UNCHANGED detVars

\* connect_and_listen returned Err(..)
SessionErr(how) ==
    /\ reconnect_attempts' = reconnect_attempts + 1
    /\ lastEnd' = how
    /\ wsPc' = "top"

\* an Ok(()) arm that leaves the attempt counter as it is
SessionOk_KeepCount(how) ==
    /\ reconnect_attempts' = reconnect_attempts
    /\ lastEnd' = how
    /\ wsPc' = "top"

\* connect_and_listen returned Ok(())
SessionOk(how) ==
    /\ reconnect_attempts' = 0
    /\ lastEnd' = how
    /\ wsPc' = "top"

\* Url::parse or connect_async fails
ConnectFail(cap) ==
    /\ wsPc = "connect"
    /\ reconnect_attempts < cap
    /\ SessionErr("connect_failed")
    /\ lastDelay' = 0
    /\ UNCHANGED <<settings_pools, hashOrder, sentReqs, held, nRecv, chan, now>>
    /\ UNCHANGED mainVars
    /\ UNCHANGED detVars

\* connect_async succeeds: a new session starts.  Frames and acknowledgements
\* of the session before are from now on marked as not of this session.
ConnectOk ==
    /\ wsPc = "connect"
    /\ wsPc' = "subscribe"
    /\ sentReqs' = <<>>
    /\ chan' = [i \in DOMAIN chan |-> [chan[i] EXCEPT !.cur = FALSE]]
    /\ mapCur' = [k \in DOMAIN mapCur |-> FALSE]
    /\ lastDelay' = 0
    /\ lastEnd' = "none"
    /\ UNCHANGED <<settings_pools, hashOrder, reconnect_attempts, held, nRecv, now>>
    /\ UNCHANGED <<mainPc, subscription_id_map, cache, cacheSeq, validSeq, lastStep>>
    /\ UNCHANGED detVars

\* request ids taken from enumerate() without the + 1
SubscribeRequests_ZeroBased(order) == [i \in DOMAIN order |-> [id |-> i - 1, pubkey |-> order[i]]]

\* the requests the subscribe loop writes: enumerate() over the HashSet
SubscribeRequests(order) == [i \in DOMAIN order |-> [id |-> i, pubkey |-> order[i]]]

\* the subscribe loop runs to its end
SubscribeAll ==
    /\ wsPc = "subscribe"
    /\ sentReqs' = SubscribeRequests(hashOrder)
    /\ wsPc' = "read"
    /\ UNCHANGED <<settings_pools, hashOrder, reconnect_attempts, lastDelay, lastEnd, held, nRecv, chan, now>>
    /\ UNCHANGED mainVars
    /\ UNCHANGED detVars

\* write.send fails on the (k+1)-th request
SubscribeFail(cap) ==
    /\ wsPc = "subscribe"
    /\ reconnect_attempts < cap
    /\ \E k \in 0..(Len(hashOrder) - 1) : sentReqs' = SubSeq(SubscribeRequests(hashOrder), 1, k)
    /\ SessionErr("subscribe_failed")
    /\ UNCHANGED <<settings_pools, hashOrder, lastDelay, held, nRecv, chan, now>>
    /\ UNCHANGED mainVars
    /\ UNCHANGED detVars

\* read.next() yields a text frame
ReadText(texts, max_msgs) ==
    /\ wsPc = "read"
    /\ nRecv < max_msgs
    /\ \E t \in texts : held' = << [seq |-> nRecv + 1, cur |-> TRUE, body |-> t] >>
    /\ nRecv' = nRecv + 1
    /\ wsPc' = "forward"
    /\ UNCHANGED <<settings_pools, hashOrder, reconnect_attempts, lastDelay, lastEnd, sentReqs, chan, now>>
    /\ UNCHANGED mainVars
    /\ UNCHANGED detVars

\* a send that overwrites the newest buffered payload instead of queueing
ChannelSend_Overwrite(ch, item) ==
    IF ch = <<>> THEN <<item>> ELSE Append(SubSeq(ch, 1, Len(ch) - 1), item)

\* mpsc send with capacity left
ChannelSend(ch, item) == Append(ch, item)

\* tx.send(text).await completes once the channel has capacity
Forward ==
    /\ wsPc = "forward"
    /\ mainPc = "running"
    /\ Len(chan) < ChannelCapacity
    /\ chan' = ChannelSend(chan, held[1])
    /\ held' = <<>>
    /\ wsPc' = "read"
    /\ UNCHANGED <<settings_pools, hashOrder, reconnect_attempts, lastDelay, lastEnd, sentReqs, nRecv, now>>
    /\ UNCHANGED mainVars
    /\ UNCHANGED detVars

\* tx.send fails because the receiver is gone: break, Ok(())
ForwardFail ==
    /\ wsPc = "forward"
    /\ mainPc # "running"
    /\ held' = <<>>
    /\ SessionOk("send_failed")
    /\ UNCHANGED <<settings_pools, hashOrder, lastDelay, sentReqs, nRecv, chan, now>>
    /\ UNCHANGED mainVars
    /\ UNCHANGED detVars

\* a close frame: break, Ok(())
ReadClose ==
    /\ wsPc = "read"
    /\ SessionOk("close")
    /\ UNCHANGED <<settings_pools, hashOrder, lastDelay, sentReqs, held, nRecv, chan, now>>
    /\ UNCHANGED mainVars
    /\ UNCHANGED detVars

\* read.next() yields None: the loop ends, Ok(())
ReadEnd ==
    /\ wsPc = "read"
    /\ SessionOk("end_of_stream")
    /\ UNCHANGED <<settings_pools, hashOrder, lastDelay, sentReqs, held, nRecv, chan, now>>
    /\ UNCHANGED mainVars
    /\ UNCHANGED detVars

\* read.next() yields Err: return Err
ReadError(cap) ==
    /\ wsPc = "read"
    /\ reconnect_attempts < cap
    /\ SessionErr("read_error")
    /\ UNCHANGED <<settings_pools, hashOrder, lastDelay, sentReqs, held, nRecv, chan, now>>
    /\ UNCHANGED mainVars
    /\ UNCHANGED detVars

----------------------------------------------------------------------------
(* main event loop *)

\* rx.recv() yields the oldest payload
ChannelRecv(ch) == Head(ch)

\* ctrl_c: the loop breaks, main returns and the receiver is dropped
Shutdown ==
    /\ mainPc = "running"
    /\ mainPc' = "stopped"
    /\ chan' = <<>>
    /\ UNCHANGED wsVars
    /\ UNCHANGED <<subscription_id_map, mapCur, cache, cacheSeq, validSeq, lastStep, now>>
    /\ UNCHANGED detVars

----------------------------------------------------------------------------
(* PriceCache *)

\* PriceCache::new: ttl_ms = ttl_seconds * 1000
ttl_ms == settings.monitoring.cache_ttl_seconds * 1000
stale_threshold_ms == settings.monitoring.stale_threshold_ms

\* PriceData::is_stale: age = Utc::now() - timestamp; age in ms > threshold
PriceDataIsStale(price_data, threshold_ms) == (now - price_data.timestamp) > threshold_ms

\* PriceCache::is_stale
IsStale(price_data) == PriceDataIsStale(price_data, stale_threshold_ms)

\* a read that hides the entries the detectors would skip
Get_FilterStale(cch, pair, dex) ==
    IF pair \in DOMAIN cch /\ dex \in DOMAIN cch[pair] /\ ~IsStale(cch[pair][dex])
    THEN [some |-> TRUE, v |-> cch[pair][dex]]
    ELSE [some |-> FALSE]

\* PriceCache::get
Get(cch, pair, dex) ==
    IF pair \in DOMAIN cch /\ dex \in DOMAIN cch[pair]
    THEN [some |-> TRUE, v |-> cch[pair][dex]]
    ELSE [some |-> FALSE]

\* PriceCache::get_all_dexes: the (dex, PriceData) of the pair; the Vec's
\* order is the inner map's iteration order, chosen where the Vec is used
GetAllDexes(cch, pair) ==
    IF pair \in DOMAIN cch THEN {<<dex, cch[pair][dex]>> : dex \in DOMAIN cch[pair]} ELSE {}

\* PriceCache::get_all_pairs
GetAllPairs(cch) == DOMAIN cch

RECURSIVE SumLens(_, _)
SumLens(cch, pairs) ==
    IF pairs = {} THEN 0
    ELSE LET p == CHOOSE q \in pairs : TRUE
         IN  Cardinality(DOMAIN cch[p]) + SumLens(cch, pairs \ {p})

\* a len that counts the pairs
CacheLen_Pairs(cch) == Cardinality(DOMAIN cch)

\* PriceCache::len: the sum of the inner maps' lengths
CacheLen(cch) == SumLens(cch, DOMAIN cch)

\* PriceCache::is_empty
IsEmpty(cch) == CacheLen(cch) = 0

\* the inner retain of cleanup_stale_entries: keep = !is_stale(ttl_ms)
RetainFresh(inner_map) ==
    [dex \in {d \in DOMAIN inner_map : ~PriceDataIsStale(inner_map[d], ttl_ms)} |-> inner_map[dex]]

\* a cleanup without the outer retain: emptied pairs stay
CleanupStaleEntries_KeepPairs(cch) == [pair \in DOMAIN cch |-> RetainFresh(cch[pair])]

\* a cleanup that evicts by the detectors' threshold instead of the TTL
CleanupStaleEntries_ByStaleThreshold(cch) ==
    LET kept(pair) == [dex \in {d \in DOMAIN cch[pair] : ~IsStale(cch[pair][d])} |-> cch[pair][dex]]
    IN  [pair \in {q \in DOMAIN cch : DOMAIN kept(q) # {}} |-> kept(pair)]

\* PriceCache::cleanup_stale_entries: the outer retain keeps a pair while its
\* inner map is not empty
CleanupStaleEntries(cch) ==
    [pair \in {q \in DOMAIN cch : DOMAIN RetainFresh(cch[q]) # {}} |-> RetainFresh(cch[pair])]

\* the entries the cleanup counts in `removed`
Removed(cch) ==
    {<<pair, dex>> \in UNION {{<<q, d>> : d \in DOMAIN cch[q]} : q \in DOMAIN cch} :
        PriceDataIsStale(cch[pair][dex], ttl_ms)}

\* the PriceData a caller builds with PriceData::new at the current time
PriceDataNew(price, liquidity, slot, fee_rate) ==
    [price |-> Fin(price), liquidity |-> liquidity, slot |-> slot, timestamp |-> now,
     vault_a_balance |-> 0, vault_b_balance |-> 0, fee_rate |-> fee_rate]

\* cache.set(pair, dex, PriceData::new(..)) for one of the given writes, each
\* a (pair, dex) key with the values to store
CacheSetOp(writes) ==
    /\ \E w \in writes :
          LET k == w[1]
              d == w[2]
              data == PriceDataNew(d.price, d.liquidity, d.slot, d.fee_rate)
              prev == Get(cache, k[1], k[2])
          IN  /\ cache' = CacheSet(cache, k[1], k[2], data)
              /\ lastOp' = [op |-> "set", pair |-> k[1], dex |-> k[2], data |-> data,
                            overwrote |-> (prev.some /\ prev.v # data)]
    /\ UNCHANGED <<now, settings>>
    /\ UNCHANGED <<sideVars, statVars, wsVars, chan, mainPc, subscription_id_map, mapCur, cacheSeq, validSeq, lastStep>>

\* one run of the cleanup task's loop body
CacheCleanupOp ==
    /\ cache' = CleanupStaleEntries(cache)
    /\ lastOp' = [op |-> "cleanup", removed |-> Cardinality(Removed(cache)),
                  kept |-> CacheLen(cache'),
                  dropped |-> Cardinality(GetAllPairs(cache) \ GetAllPairs(cache'))]
    /\ UNCHANGED <<now, settings>>
    /\ UNCHANGED <<sideVars, statVars, wsVars, chan, mainPc, subscription_id_map, mapCur, cacheSeq, validSeq, lastStep>>

\* cache.get(pair, dex), cache.len() and cache.is_empty() by some reader
CacheReadOp(keys) ==
    /\ \E k \in keys :
          lastOp' = [op |-> "get", pair |-> k[1], dex |-> k[2], result |-> Get(cache, k[1], k[2]),
                     all |-> GetAllDexes(cache, k[1]),
                     len |-> CacheLen(cache), is_empty |-> IsEmpty(cache)]
    /\ UNCHANGED <<now, settings, cache>>
    /\ UNCHANGED <<sideVars, statVars, wsVars, chan, mainPc, subscription_id_map, mapCur, cacheSeq, validSeq, lastStep>>

\* the readings of Utc::now() the model tells apart
ClockSteps == {1000}

\* time passes
Tick(max_time) ==
    /\ \E d \in ClockSteps : now + d <= max_time /\ now' = now + d
    /\ lastOp' = [op |-> "tick"]
    /\ UNCHANGED <<settings, cache>>
    /\ UNCHANGED <<sideVars, statVars, wsVars, chan, mainPc, subscription_id_map, mapCur, cacheSeq, validSeq, lastStep>>

----------------------------------------------------------------------------
(* f64 arithmetic of the detectors: exact fractions, +inf, -inf and NaN *)

RECURSIVE GCD(_, _)
GCD(a, b) == IF b = 0 THEN a ELSE GCD(b, a % b)

Abs(x) == IF x < 0 THEN -x ELSE x

\* the finite value n / d (d > 0), in lowest terms
XFin(n, d) == LET g == GCD(Abs(n), d) IN [cls |-> "fin", num |-> n \div g, den |-> d \div g]
XInf == [cls |-> "inf", num |-> 0, den |-> 1]
XNegInf == [cls |-> "ninf", num |-> 0, den |-> 1]
XNaN == [cls |-> "nan", num |-> 0, den |-> 1]

XSign(a) ==
    CASE a.cls = "inf"  -> 1
      [] a.cls = "ninf" -> -1
      [] a.cls = "fin"  -> IF a.num > 0 THEN 1 ELSE IF a.num < 0 THEN -1 ELSE 0
      [] OTHER          -> 0

XSigned(sign) == IF sign > 0 THEN XInf ELSE XNegInf

XNeg(a) ==
    CASE a.cls = "fin"  -> XFin(-a.num, a.den)
      [] a.cls = "inf"  -> XNegInf
      [] a.cls = "ninf" -> XInf
      [] OTHER          -> XNaN

XAdd(a, b) ==
    CASE a.cls = "nan" \/ b.cls = "nan" -> XNaN
      [] a.cls = "fin" /\ b.cls = "fin" -> XFin(a.num * b.den + b.num * a.den, a.den * b.den)
      [] a.cls = "fin"                  -> b
      [] b.cls = "fin"                  -> a
      [] a.cls = b.cls                  -> a
      [] OTHER                          -> XNaN

XSub(a, b) == XAdd(a, XNeg(b))

XMul(a, b) ==
    CASE a.cls = "nan" \/ b.cls = "nan" -> XNaN
      [] a.cls = "fin" /\ b.cls = "fin" ->
            LET g1 == GCD(Abs(a.num), b.den)
                g2 == GCD(Abs(b.num), a.den)
            IN  XFin((a.num \div g1) * (b.num \div g2), (a.den \div g2) * (b.den \div g1))
      [] XSign(a) = 0 \/ XSign(b) = 0   -> XNaN
      [] OTHER                          -> XSigned(XSign(a) * XSign(b))

\* a / b; a zero divisor is +0.0
XDiv(a, b) ==
    CASE a.cls = "nan" \/ b.cls = "nan" -> XNaN
      [] a.cls # "fin" /\ b.cls # "fin" -> XNaN
      [] a.cls # "fin"                  -> XSigned(XSign(a) * (IF b.num < 0 THEN -1 ELSE 1))
      [] b.cls # "fin"                  -> XFin(0, 1)
      [] b.num = 0                      -> IF a.num = 0 THEN XNaN ELSE XSigned(XSign(a))
      [] b.num > 0                      -> XMul(a, XFin(b.den, b.num))
      [] OTHER                          -> XMul(a, XFin(-b.den, -b.num))

\* a > b; false when either is NaN
XGt(a, b) ==
    CASE a.cls = "nan" \/ b.cls = "nan" -> FALSE
      [] a.cls = "fin" /\ b.cls = "fin" -> a.num * b.den > b.num * a.den
      [] a.cls = "inf"                  -> b.cls # "inf"
      [] b.cls = "ninf"                 -> a.cls # "ninf"
      [] OTHER                          -> FALSE

\* f64::min / f64::max of two numbers
XMin(a, b) == IF XGt(a, b) THEN b ELSE a
XMax(a, b) == IF XGt(b, a) THEN b ELSE a

\* f64::clamp(0.0, 1.0): NaN stays NaN
XClamp01(a) == IF a.cls = "nan" THEN a ELSE XMax(XFin(0, 1), XMin(a, XFin(1, 1)))

\* an f64 price of a PriceData
ToX(price) == IF price.cls = "inf" THEN XInf ELSE XFin(price.v, 1)

\* a fee_rate (held in ppm) and a configured percentage (held in 0.0001 %)
FeeX(fee_rate) == XFin(fee_rate, 1000000)
PctX(percent) == XFin(percent, 10000)

\* the u64 -> f64 conversion of a liquidity or a slot difference
U64X(n) == XFin(n, 1)

\* (x as f64 * fraction) as u64 for a fraction num / den: the floor
ScaleU64(x, num, den) == (x * num) \div den

None == [some |-> FALSE]
Some(v) == [some |-> TRUE, v |-> v]

\* every order in which the elements of a finite set can be listed
SeqsOf(S) == {o \in [1..Cardinality(S) -> S] : \A i, j \in DOMAIN o : o[i] = o[j] => i = j}

----------------------------------------------------------------------------
(* Spatial detector *)

\* partial_cmp(..) == Less on two prices
F64Less(a, b) == a.cls = "fin" /\ (b.cls = "inf" \/ a.v < b.v)

\* Iterator::min_by: the first of the minimal elements
MinBy(prices) ==
    LET i == CHOOSE i \in DOMAIN prices :
                /\ \A j \in DOMAIN prices : ~F64Less(prices[j][2].price, prices[i][2].price)
                /\ \A j \in 1..(i - 1) : F64Less(prices[i][2].price, prices[j][2].price)
    IN  prices[i]

\* Iterator::max_by: the last of the maximal elements
MaxBy(prices) ==
    LET i == CHOOSE i \in DOMAIN prices :
                /\ \A j \in DOMAIN prices : ~F64Less(prices[i][2].price, prices[j][2].price)
                /\ \A j \in (i + 1)..Len(prices) : F64Less(prices[j][2].price, prices[i][2].price)
    IN  prices[i]

\* a scan that compares every cached venue
FilterFresh_All(prices) == prices

\* .filter(|(_, p)| !cache.is_stale(p))
FilterFresh(prices) == SelectSeq(prices, LAMBDA e : ~IsStale(e[2]))

\* a u64 subtraction that saturates at 0
AbsDiff_SaturatingSub(a, b) == IF a > b THEN a - b ELSE 0

\* u64::abs_diff
AbsDiff(a, b) == IF a > b THEN a - b ELSE b - a

\* costs without the fee of the selling venue
calculate_total_costs_NoSellFee(buy, sell, fees) ==
    XAdd(XAdd(XAdd(XMul(FeeX(buy.fee_rate), XFin(100, 1)),
                   PctX(fees.estimated_slippage)),
              PctX(fees.gas_cost_percent)),
         PctX(fees.jito_tip_percent))

\* calculate_total_costs: buy_fee + sell_fee + slippage + gas + tip, in percent
calculate_total_costs(buy, sell, fees) ==
    LET buy_fee == XMul(FeeX(buy.fee_rate), XFin(100, 1))
        sell_fee == XMul(FeeX(sell.fee_rate), XFin(100, 1))
    IN  XAdd(XAdd(XAdd(XAdd(buy_fee, sell_fee),
                       PctX(fees.estimated_slippage)),
                  PctX(fees.gas_cost_percent)),
             PctX(fees.jito_tip_percent))

\* calculate_optimal_size: 5 % of the smaller liquidity
calculate_optimal_size(buy, sell) == ScaleU64(Min(buy.liquidity, sell.liquidity), 5, 100)

\* a confidence whose liquidity factor is not capped and that is not clamped
calculate_confidence_NoCap(buy, sell) ==
    LET slot_diff == U64X(AbsDiff(buy.slot, sell.slot))
        slot_factor == XSub(XFin(1, 1), XMin(XDiv(slot_diff, XFin(10, 1)), XFin(1, 2)))
        min_liquidity == U64X(Min(buy.liquidity, sell.liquidity))
        liquidity_factor == XDiv(min_liquidity, XFin(1000000, 1))
    IN  XAdd(XMul(slot_factor, XFin(6, 10)), XMul(liquidity_factor, XFin(4, 10)))

\* calculate_confidence
calculate_confidence(buy, sell) ==
    LET slot_diff == U64X(AbsDiff(buy.slot, sell.slot))
        slot_factor == XSub(XFin(1, 1), XMin(XDiv(slot_diff, XFin(10, 1)), XFin(1, 2)))
        min_liquidity == U64X(Min(buy.liquidity, sell.liquidity))
        liquidity_factor == XMin(XDiv(min_liquidity, XFin(1000000, 1)), XFin(1, 1))
    IN  XClamp01(XAdd(XMul(slot_factor, XFin(6, 10)), XMul(liquidity_factor, XFin(4, 10))))

\* detect_spatial_arbitrage; prices is cache.get_all_dexes(pair) in the
\* order the Vec lists it
detect_spatial_arbitrage(prices, pair, min_profit, fees, slot_tolerance) ==
    IF Len(prices) < 2 THEN None
    ELSE IF FilterFresh(prices) = <<>> THEN None
    ELSE
      LET buy_dex == MinBy(FilterFresh(prices))[1]
          buy_data == MinBy(FilterFresh(prices))[2]
          sell_dex == MaxBy(FilterFresh(prices))[1]
          sell_data == MaxBy(FilterFresh(prices))[2]
      IN  IF buy_dex = sell_dex THEN None
          ELSE IF AbsDiff(sell_data.slot, buy_data.slot) > slot_tolerance THEN None
          ELSE
            LET gross_profit == XMul(XDiv(XSub(ToX(sell_data.price), ToX(buy_data.price)),
                                          ToX(buy_data.price)),
                                     XFin(100, 1))
                total_costs == calculate_total_costs(buy_data, sell_data, fees)
                net_profit == XSub(gross_profit, total_costs)
            IN  IF XGt(net_profit, PctX(min_profit))
                THEN Some([opportunity_type |-> "Spatial",
                           token_pair |-> pair,
                           buy_dex |-> buy_dex,
                           sell_dex |-> sell_dex,
                           buy_price |-> ToX(buy_data.price),
                           sell_price |-> ToX(sell_data.price),
                           net_profit_percent |-> net_profit,
                           recommended_size |-> calculate_optimal_size(buy_data, sell_data),
                           confidence |-> calculate_confidence(buy_data, sell_data)])
                ELSE None

\* OpportunityDetector::scan_pair, as main's scan_opportunities calls it
ScanPairOp(pairs) ==
    /\ \E pair \in pairs : \E prices \in SeqsOf(GetAllDexes(cache, pair)) :
          lastOp' = [op |-> "scan", pair |-> pair,
                     result |-> detect_spatial_arbitrage(prices, pair,
                                    settings.arbitrage.min_profit_percent, settings.fees,
                                    settings.arbitrage.slot_tolerance)]
    /\ UNCHANGED <<now, settings, cache>>
    /\ UNCHANGED <<sideVars, statVars, wsVars, chan, mainPc, subscription_id_map, mapCur, cacheSeq, validSeq, lastStep>>

----------------------------------------------------------------------------
(* Triangular detector *)

\* TriangularArbConfig::default(): min profit 0.3 %, tolerance 2 slots
TriangularArbConfigDefault == [min_profit_percent |-> 3000, slot_tolerance |-> 2]

\* TriangularPath::new
TriangularPath(token_start, token_mid, token_end, dex) ==
    [token_start |-> token_start, token_mid |-> token_mid, token_end |-> token_end,
     pair_1 |-> token_start \o "-" \o token_mid,
     pair_2 |-> token_mid \o "-" \o token_end,
     pair_3 |-> token_end \o "-" \o token_start,
     dex |-> dex]

\* generate_common_paths
generate_common_paths(dex) ==
    << TriangularPath("SOL", "USDC", "BONK", dex),
       TriangularPath("SOL", "USDC", "JTO", dex),
       TriangularPath("SOL", "USDC", "JUP", dex),
       TriangularPath("SOL", "USDC", "RAY", dex),
       TriangularPath("SOL", "USDT", "BONK", dex),
       TriangularPath("SOL", "USDC", "USDT", dex) >>

\* a staleness check of the first leg only
AnyLegStale_FirstOnly(price_1, price_2, price_3) == IsStale(price_1)

\* the staleness check of detect
AnyLegStale(price_1, price_2, price_3) == IsStale(price_1) \/ IsStale(price_2) \/ IsStale(price_3)

Max(a, b) == IF a > b THEN a ELSE b

\* calculate_triangular_confidence
calculate_triangular_confidence(min_liquidity, slot_diff) ==
    LET liquidity_factor == XMin(XDiv(U64X(min_liquidity), XFin(1000000, 1)), XFin(1, 1))
        slot_factor == XSub(XFin(1, 1), XMin(XDiv(U64X(slot_diff), XFin(5, 1)), XFin(1, 2)))
    IN  XClamp01(XAdd(XMul(liquidity_factor, XFin(1, 2)), XMul(slot_factor, XFin(1, 2))))

\* a rate that forgets the venue's fee
LegRate_NoFee(price_data) == ToX(price_data.price)

\* the effective rate of a leg: price * (1 - fee_rate)
LegRate(price_data) == XMul(ToX(price_data.price), XSub(XFin(1, 1), FeeX(price_data.fee_rate)))

\* TriangularArbitrageDetector::detect
TriangularDetect(cch, config, fees, path) ==
    LET leg_1 == Get(cch, path.pair_1, path.dex)
        leg_2 == Get(cch, path.pair_2, path.dex)
        leg_3 == Get(cch, path.pair_3, path.dex)
    IN  IF ~leg_1.some \/ ~leg_2.some \/ ~leg_3.some THEN None
        ELSE IF AnyLegStale(leg_1.v, leg_2.v, leg_3.v) THEN None
        ELSE
          LET price_1 == leg_1.v
              price_2 == leg_2.v
              price_3 == leg_3.v
              max_slot == Max(Max(price_1.slot, price_2.slot), price_3.slot)
              min_slot == Min(Min(price_1.slot, price_2.slot), price_3.slot)
          IN  IF max_slot - min_slot > config.slot_tolerance THEN None
              ELSE
                LET rate_1 == LegRate(price_1)
                    rate_2 == LegRate(price_2)
                    rate_3 == LegRate(price_3)
                    final_amount == XMul(XMul(rate_1, rate_2), rate_3)
                    gross_profit_percent == XMul(XSub(final_amount, XFin(1, 1)), XFin(100, 1))
                    additional_costs ==
                        XAdd(XAdd(PctX(fees.gas_cost_percent), PctX(fees.jito_tip_percent)),
                             XMul(PctX(fees.estimated_slippage), XFin(3, 1)))
                    net_profit_percent == XSub(gross_profit_percent, additional_costs)
                    min_liquidity == Min(Min(price_1.liquidity, price_2.liquidity),
                                         price_3.liquidity)
                IN  IF XGt(net_profit_percent, PctX(config.min_profit_percent))
                    THEN Some([opportunity_type |-> "Triangular",
                               token_pair |-> path.token_start \o "->" \o path.token_mid \o "->"
                                                  \o path.token_end \o "->" \o path.token_start,
                               buy_dex |-> path.dex,
                               sell_dex |-> path.dex,
                               buy_price |-> XFin(1, 1),
                               sell_price |-> final_amount,
                               net_profit_percent |-> net_profit_percent,
                               recommended_size |-> ScaleU64(min_liquidity, 3, 100),
                               confidence |-> calculate_triangular_confidence(min_liquidity,
                                                                              max_slot - min_slot)])
                    ELSE None

\* triangular_detector.detect(path) for a path of the given list, with the
\* configuration main builds the detector with
TriangularDetectOp(paths) ==
    /\ \E i \in DOMAIN paths :
          lastOp' = [op |-> "detect", path |-> paths[i],
                     result |-> TriangularDetect(cache, TriangularArbConfigDefault,
                                                 settings.fees, paths[i])]
    /\ UNCHANGED <<now, settings, cache>>
    /\ UNCHANGED <<sideVars, statVars, wsVars, chan, mainPc, subscription_id_map, mapCur, cacheSeq, validSeq, lastStep>>

----------------------------------------------------------------------------
(* Statistical detector *)
(*                                                                         *)
(* A spread is a difference of logarithms.  Spreads, their mean and the    *)
(* numerator of a z-score are held in units of ln 2 (the prices the        *)
(* statistical specification writes are 0 or powers of two, so a spread is *)
(* a whole number of such units, -inf or NaN).  A standard deviation is    *)
(* either one of the two absolute constants of the code (1.0 and 0.0001)   *)
(* or the square root of a variance, held as that variance.  A z-score is  *)
(* held as its numerator and its divisor.                                   *)

\* StatArbConfig::default(); min_correlation in tenths, min_profit_percent in 0.0001 %
StatArbConfigDefault ==
    [min_correlation |-> 7, z_score_entry |-> 2, z_score_exit |-> 0, z_score_stop_loss |-> 3,
     window_size |-> 100, min_profit_percent |-> 3000]

\* the history length from which update recalculates and detect looks for a signal
MinHistory == 20

\* ln 2, to six places
Ln2X == XFin(693147, 1000000)

XAbs(a) == IF XSign(a) < 0 THEN XNeg(a) ELSE a

Log2(n) == CHOOSE k \in 0..30 : Pow(2, k) = n

\* f64::ln of a price, in units of ln 2
Ln(price) ==
    IF price.cls = "inf" THEN XInf
    ELSE IF price.v = 0 THEN XNegInf
    ELSE IF price.v < 0 THEN XNaN
    ELSE XFin(Log2(price.v), 1)

\* a standard deviation given absolutely, and one given as sqrt(variance) * ln 2
StdAbs(num, den) == [kind |-> "abs", v |-> XFin(num, den)]
StdRoot(variance) == [kind |-> "root", v |-> variance]

\* PairStatistics::new
PairStatisticsNew(token_a, token_b) ==
    [token_a |-> token_a, token_b |-> token_b,
     beta |-> XFin(1, 1),
     mean_spread |-> XFin(0, 1),
     std_dev_spread |-> StdAbs(1, 1),
     half_life |-> 3600,
     spread_history |-> <<>>,
     last_updated |-> now \div 1000]

RECURSIVE SumX(_)
\* iter().sum::<f64>()
SumX(xs) == IF xs = <<>> THEN XFin(0, 1) ELSE XAdd(SumX(SubSeq(xs, 1, Len(xs) - 1)), xs[Len(xs)])

\* sqrt(variance) * ln 2 < 0.0001, i.e. variance < (0.0001 / ln 2)^2 = 1 / 48045301.6
VarBelowFloor(variance) ==
    variance.cls = "fin" /\ variance.num <= (variance.den - 1) \div 48045301

\* variance.sqrt().max(0.0001): f64::max returns 0.0001 for a NaN root
SqrtMax(variance) ==
    IF variance.cls = "inf" \/ (variance.cls = "fin" /\ ~VarBelowFloor(variance))
    THEN StdRoot(variance)
    ELSE StdAbs(1, 10000)

\* the variance of recalculate_statistics: sum of (x - mean)^2 over n
Variance(spreads, mean) ==
    XDiv(SumX([i \in DOMAIN spreads |-> XMul(XSub(spreads[i], mean), XSub(spreads[i], mean))]),
         XFin(Len(spreads), 1))

\* PairStatistics::recalculate_statistics
recalculate_statistics(stats) ==
    LET spreads == stats.spread_history
        mean == XDiv(SumX(spreads), XFin(Len(spreads), 1))
    IN  [stats EXCEPT !.mean_spread = mean,
                      !.std_dev_spread = SqrtMax(Variance(spreads, mean))]

RECURSIVE TrimFront(_, _)
\* a window kept by dropping the newest sample
TrimFront_PopBack(history, window_size) ==
    IF Len(history) > window_size THEN SubSeq(history, 1, window_size) ELSE history

\* while spread_history.len() > window_size { pop_front() }
TrimFront(history, window_size) ==
    IF Len(history) > window_size THEN TrimFront(Tail(history), window_size) ELSE history

\* PairStatistics::update
StatUpdate(stats, spread, window_size) ==
    LET trimmed == TrimFront(Append(stats.spread_history, spread), window_size)
        kept == [stats EXCEPT !.spread_history = trimmed]
        recalculated == IF Len(trimmed) >= MinHistory THEN recalculate_statistics(kept) ELSE kept
    IN  [recalculated EXCEPT !.last_updated = now \div 1000]

\* a z-score that divides by the variance
calculate_z_score_ByVariance(stats, current_spread) ==
    [num |-> XSub(current_spread, stats.mean_spread),
     std |-> IF stats.std_dev_spread.kind = "root"
             THEN StdAbs(stats.std_dev_spread.v.num, stats.std_dev_spread.v.den)
             ELSE stats.std_dev_spread]

\* PairStatistics::calculate_z_score: (current_spread - mean_spread) / std_dev_spread
calculate_z_score(stats, current_spread) ==
    [num |-> XSub(current_spread, stats.mean_spread), std |-> stats.std_dev_spread]

\* z.abs() as coef * sqrt(rad)
AbsZ(z) ==
    IF z.std.kind = "abs"
    THEN [coef |-> XDiv(XMul(XAbs(z.num), Ln2X), z.std.v), rad |-> XFin(1, 1)]
    ELSE [coef |-> XAbs(z.num), rad |-> XDiv(XFin(1, 1), z.std.v)]

\* coef * sqrt(rad) > k for a k >= 0; false for NaN
SurdGt(s, k) ==
    IF s.rad = XFin(1, 1) THEN XGt(s.coef, k)
    ELSE XGt(XMul(XMul(s.coef, s.coef), s.rad), XMul(k, k))

\* z < 0.0
ZNegative(z) == AbsZ(z).coef.cls # "nan" /\ XSign(z.num) < 0

\* StatisticalArbitrageDetector::calculate_spread
calculate_spread(price_a, price_b, beta) == XSub(Ln(price_a), XMul(beta, Ln(price_b)))

\* calculate_confidence of statistical.rs.  The result is a fraction when the
\* z factor is capped or rational, else the value a * sqrt(rad) + b.
stat_calculate_confidence(z_score, history_len) ==
    LET abs_z == AbsZ(z_score)
        capped == abs_z.coef.cls = "nan" \/ SurdGt(abs_z, XFin(3, 1))
        history_factor == XMin(XDiv(U64X(history_len), XFin(100, 1)), XFin(1, 1))
        b == XMul(history_factor, XFin(4, 10))
        a == XMul(XDiv(abs_z.coef, XFin(3, 1)), XFin(6, 10))
    IN  IF capped THEN XClamp01(XAdd(XFin(6, 10), b))
        ELSE IF abs_z.rad = XFin(1, 1) THEN XClamp01(XAdd(a, b))
        ELSE IF XGt(XMul(XMul(a, a), abs_z.rad), XMul(XSub(XFin(1, 1), b), XSub(XFin(1, 1), b)))
             THEN XFin(1, 1)
             ELSE [cls |-> "surd", a |-> a, rad |-> abs_z.rad, b |-> b]

\* what a detect call returns and leaves behind, with the values it computed
\* on the way
StatResult(result, stats_map, price_a, price_b, spread, z_score) ==
    [result |-> result, pair_stats |-> stats_map, price_a |-> price_a, price_b |-> price_b,
     spread |-> spread, z_score |-> z_score]

StatsKey(pair_a, pair_b) == pair_a \o ":" \o pair_b

\* a detector that takes every cached price as current
EitherStale_Never(price_a, price_b) == FALSE

\* the staleness check of detect: either of the two prices is stale
EitherStale(price_a, price_b) == IsStale(price_a) \/ IsStale(price_b)

\* StatisticalArbitrageDetector::detect
StatDetect(cch, config, stats_map, pair_a, pair_b, dex) ==
    LET got_a == Get(cch, pair_a, dex)
        got_b == Get(cch, pair_b, dex)
    IN  IF ~got_a.some THEN StatResult(None, stats_map, None, None, None, None)
        ELSE IF ~got_b.some THEN StatResult(None, stats_map, got_a, None, None, None)
        ELSE IF EitherStale(got_a.v, got_b.v)
             THEN StatResult(None, stats_map, got_a, got_b, None, None)
        ELSE
          LET price_a == got_a.v
              price_b == got_b.v
              stats_key == StatsKey(pair_a, pair_b)
              beta == IF stats_key \in DOMAIN stats_map THEN stats_map[stats_key].beta ELSE XFin(1, 1)
              current_spread == calculate_spread(price_a.price, price_b.price, beta)
              entry == IF stats_key \in DOMAIN stats_map THEN stats_map[stats_key]
                       ELSE PairStatisticsNew(pair_a, pair_b)
              stats == StatUpdate(entry, current_spread, config.window_size)
              updated == MapInsert(stats_map, stats_key, stats)
          IN  IF Len(stats.spread_history) < MinHistory
              THEN StatResult(None, updated, got_a, got_b, Some(current_spread), None)
              ELSE
                LET z_score == calculate_z_score(stats, current_spread)
                    expected_reversion == XAbs(z_score.num)   \* z.abs() * std: the numerator again
                    estimated_profit_percent ==
                        XMul(XDiv(expected_reversion, XAbs(current_spread)), XFin(100, 1))
                IN  IF /\ SurdGt(AbsZ(z_score), XFin(config.z_score_entry, 1))
                       /\ XGt(estimated_profit_percent, PctX(config.min_profit_percent))
                    THEN StatResult(
                             Some([opportunity_type |-> "Statistical",
                                   token_pair |-> stats_key,
                                   buy_dex |-> dex,
                                   sell_dex |-> dex,
                                   buy_price |-> ToX(price_a.price),
                                   sell_price |-> ToX(price_b.price),
                                   net_profit_percent |-> estimated_profit_percent,
                                   recommended_size |->
                                       ScaleU64(Min(price_a.liquidity, price_b.liquidity), 2, 100),
                                   confidence |->
                                       stat_calculate_confidence(z_score,
                                                                 Len(stats.spread_history))]),
                             updated, got_a, got_b, Some(current_spread), Some(z_score))
                    ELSE StatResult(None, updated, got_a, got_b, Some(current_spread),
                                    Some(z_score))

\* stat_detector.detect(pair_a, pair_b, dex) for one of the given triples
StatDetectOp(triples, max_calls) ==
    /\ statCalls < max_calls
    /\ \E t \in triples :
          LET r == StatDetect(cache, stat_config, pair_stats, t[1], t[2], t[3])
              key == StatsKey(t[1], t[2])
          IN  /\ pair_stats' = r.pair_stats
              /\ spreadLog' = IF r.spread.some
                               THEN MapInsert(spreadLog, key,
                                              Append(IF key \in DOMAIN spreadLog THEN spreadLog[key]
                                                     ELSE <<>>, r.spread.v))
                               ELSE spreadLog
              /\ lastOp' = [op |-> "stat_detect", pair_a |-> t[1], pair_b |-> t[2], dex |-> t[3],
                            key |-> key, result |-> r.result,
                            price_a |-> r.price_a, price_b |-> r.price_b,
                            spread |-> r.spread, z_score |-> r.z_score,
                            before |-> MapGet(pair_stats, key)]
    /\ statCalls' = statCalls + 1
    /\ UNCHANGED <<now, settings, cache, stat_config>>
    /\ UNCHANGED <<sideVars, wsVars, chan, mainPc, subscription_id_map, mapCur, cacheSeq, validSeq, lastStep>>

\* stats.calculate_z_score(x) on the statistics of a tracked key
ZScoreOp(xs) ==
    /\ \E key \in DOMAIN pair_stats : \E x \in xs :
          lastOp' = [op |-> "z_score", key |-> key, x |-> x,
                     result |-> calculate_z_score(pair_stats[key], x)]
    /\ UNCHANGED <<now, settings, cache>>
    /\ UNCHANGED <<sideVars, statVars, wsVars, chan, mainPc, subscription_id_map, mapCur, cacheSeq, validSeq, lastStep>>

----------------------------------------------------------------------------
(* scan_opportunities and the end of process_message *)

\* the paths main generates once and hands to every process_message call
triangular_paths == generate_common_paths("raydium")

OpportunityFound(opp) == [type |-> "OpportunityFound", opp |-> opp]

\* the loop of scan_opportunities over the paths: detect on each, in order,
\* with the configuration main builds the triangular detector with
TriangularScan(cch, paths) ==
    LET results == [i \in DOMAIN paths |->
                        TriangularDetect(cch, TriangularArbConfigDefault, settings.fees, paths[i])]
        found == SelectSeq(results, LAMBDA r : r.some)
    IN  [i \in DOMAIN found |-> OpportunityFound(found[i].v)]

\* scan_opportunities: what it sends on the broadcast topic; prices is
\* cache.get_all_dexes(updated_pair) in the order the Vec lists it
ScanOpportunities(cch, updated_pair, prices, paths) ==
    LET spatial == detect_spatial_arbitrage(prices, updated_pair,
                       settings.arbitrage.min_profit_percent, settings.fees,
                       settings.arbitrage.slot_tolerance)
    IN  (IF spatial.some THEN << OpportunityFound(spatial.v) >> ELSE <<>>)
            \o TriangularScan(cch, paths)

\* the end of process_message for an accepted price: cache.update, the
\* PriceUpdate and scan_opportunities, for one of the given writes
UpdateAndScanOp(writes, paths) ==
    /\ \E w \in writes :
          LET k == w[1]
              d == w[2]
              data == PriceDataNew(d.price, d.liquidity, d.slot, d.fee_rate)
              cch == CacheSet(cache, k[1], k[2], data)
          IN  /\ cache' = cch
              /\ \E prices \in SeqsOf(GetAllDexes(cch, k[1])) :
                    lastOp' = [op |-> "update", pair |-> k[1], dex |-> k[2],
                               scanned |-> k[1],
                               evaluated |-> Range(paths),
                               published |->
                                   << [type |-> "PriceUpdate", pair |-> k[1], dex |-> k[2],
                                       price |-> data.price, slot |-> data.slot] >>
                                   \o ScanOpportunities(cch, k[1], prices, paths)]
    /\ UNCHANGED <<now, settings>>
    /\ UNCHANGED <<sideVars, statVars, wsVars, chan, mainPc, subscription_id_map, mapCur, cacheSeq, validSeq, lastStep>>

\* one turn of the select! loop: receive a payload, run process_message (the
\* scan_opportunities call at its end included)
ProcessMessage ==
    /\ mainPc = "running"
    /\ chan # <<>>
    /\ LET m == ChannelRecv(chan)
       IN  \E overflow_checks \in BOOLEAN :
             LET r == process_message(m, overflow_checks)
             IN  /\ subscription_id_map' = r.map
                 /\ mapCur' = r.cur
                 /\ cache' = r.cache
                 /\ \E prices \in SeqsOf(GetAllDexes(r.cache, r.scanned)) :
                       lastStep' = [seq |-> m.seq, outcome |-> r.outcome,
                                    published |-> r.published \o
                                        (IF r.scanned = "none" THEN <<>>
                                         ELSE ScanOpportunities(r.cache, r.scanned, prices,
                                                                triangular_paths)),
                                    scanned |-> r.scanned]
                 /\ cacheSeq' = IF r.outcome = "written"
                                 THEN MapInsert(cacheSeq, r.quote.key, m.seq) ELSE cacheSeq
                 /\ validSeq' = IF r.quote.key # <<>> /\ F64FinitePositive(r.quote.price)
                                 THEN MapInsert(validSeq, r.quote.key, m.seq) ELSE validSeq
                 /\ mainPc' = AfterMessage(r.outcome)
                 /\ chan' = IF mainPc' = "running" THEN Tail(chan) ELSE <<>>
    /\ UNCHANGED wsVars
    /\ UNCHANGED now
    /\ UNCHANGED detVars

----------------------------------------------------------------------------
(* Specifications *)

----------------------------------------------------------------------------
(* PriceCache::set and cleanup_stale_entries running at the same time.  The
   outer DashMap is a fixed array of shards, each behind a read-write lock.
   entry(pair) takes the write lock of the pair's shard and the RefMut that
   or_insert_with returns keeps it until the end of the statement, so the
   inner insert happens under it; retain visits the shards in order and
   runs its closure on a shard's pairs under that shard's write lock. *)

Shards == 1..2
ShardOf(pair) == IF pair = "SOL-USDT" THEN 2 ELSE 1

NoSet == [pc |-> "idle", calls |-> 0]
NoCleanup == [pc |-> "idle", calls |-> 0]

InitCallers ==
    /\ shard_lock = [i \in Shards |-> "free"]
    /\ callers = [set |-> NoSet, cleanup |-> NoCleanup]

\* a write lock that is handed out while another guard is alive
CanLock_Always(lock, shard) == TRUE

\* RwLock::write returns once no other guard of the shard is alive
CanLock(lock, shard) == lock[shard] = "free"

\* or_insert_with(DashMap::new): a vacant pair gets an empty inner map
OrInsertEmpty(cch, pair) == IF pair \in DOMAIN cch THEN cch ELSE MapInsert(cch, pair, <<>>)

\* .insert(dex, price_data) through the RefMut of the pair's entry
InnerInsert(cch, pair, dex, price_data) ==
    IF pair \in DOMAIN cch THEN MapInsert(cch, pair, MapInsert(cch[pair], dex, price_data))
    ELSE cch

\* the outer retain on one shard: cleanup_stale_entries on the shard's pairs
RetainShard(cch, shard) ==
    LET mine == [pair \in {q \in DOMAIN cch : ShardOf(q) = shard} |-> cch[pair]]
        rest == [pair \in {q \in DOMAIN cch : ShardOf(q) # shard} |-> cch[pair]]
    IN  rest @@ CleanupStaleEntries(mine)

\* a task calls cache.set(pair, dex, PriceData::new(..))
SetCall(writes, max_calls) ==
    /\ callers.set.pc \in {"idle", "done"}
    /\ callers.set.calls < max_calls
    /\ \E w \in writes :
          LET data == PriceDataNew(w[2].price, w[2].liquidity, w[2].slot, w[2].fee_rate)
          IN  callers' = [callers EXCEPT !.set =
                             [pc |-> "entry", calls |-> callers.set.calls + 1,
                              pair |-> w[1][1], dex |-> w[1][2], data |-> data,
                              raced |-> FALSE]]
    /\ lastOp' = [op |-> "set_call"]
    /\ UNCHANGED <<now, settings, cache, shard_lock>>
    /\ UNCHANGED <<api_sent, api_rx, statVars, wsVars, chan, mainPc, subscription_id_map, mapCur, cacheSeq, validSeq, lastStep>>

\* set: self.data.entry(pair).or_insert_with(DashMap::new)
SetEntry ==
    LET c == callers.set
        shard == ShardOf(c.pair)
    IN  /\ c.pc = "entry"
        /\ CanLock(shard_lock, shard)
        /\ shard_lock' = [shard_lock EXCEPT ![shard] = "set"]
        /\ cache' = OrInsertEmpty(cache, c.pair)
        /\ callers' = [callers EXCEPT !.set.pc = "insert",
                                      !.set.raced = callers.cleanup.pc \in {"lock", "retain"}]
        /\ lastOp' = [op |-> "set_entry", pair |-> c.pair, created |-> c.pair \notin DOMAIN cache]
        /\ UNCHANGED <<now, settings>>
        /\ UNCHANGED <<api_sent, api_rx, statVars, wsVars, chan, mainPc, subscription_id_map, mapCur, cacheSeq, validSeq, lastStep>>

\* set: .insert(dex, price_data), and the RefMut dropped at the end of the
\* statement
SetInsert ==
    LET c == callers.set
        shard == ShardOf(c.pair)
    IN  /\ c.pc = "insert"
        /\ cache' = InnerInsert(cache, c.pair, c.dex, c.data)
        /\ shard_lock' = [shard_lock EXCEPT ![shard] = "free"]
        /\ callers' = [callers EXCEPT !.set.pc = "done"]
        /\ lastOp' = [op |-> "set", pair |-> c.pair, dex |-> c.dex, data |-> c.data,
                      overwrote |-> FALSE]
        /\ UNCHANGED <<now, settings>>
        /\ UNCHANGED <<api_sent, api_rx, statVars, wsVars, chan, mainPc, subscription_id_map, mapCur, cacheSeq, validSeq, lastStep>>

\* the cleanup task's ticker fires: cleanup_stale_entries starts at the
\* first shard
CleanupCall(max_calls) ==
    /\ callers.cleanup.pc \in {"idle", "done"}
    /\ callers.cleanup.calls < max_calls
    /\ callers' = [callers EXCEPT !.cleanup =
                      [pc |-> "lock", calls |-> callers.cleanup.calls + 1, shard |-> 1,
                       removed |-> 0]]
    /\ lastOp' = [op |-> "cleanup_call"]
    /\ UNCHANGED <<now, settings, cache, shard_lock>>
    /\ UNCHANGED <<api_sent, api_rx, statVars, wsVars, chan, mainPc, subscription_id_map, mapCur, cacheSeq, validSeq, lastStep>>

\* retain: the write lock of the next shard
CleanupLock ==
    LET c == callers.cleanup
    IN  /\ c.pc = "lock"
        /\ CanLock(shard_lock, c.shard)
        /\ shard_lock' = [shard_lock EXCEPT ![c.shard] = "cleanup"]
        /\ callers' = [callers EXCEPT !.cleanup.pc = "retain"]
        /\ lastOp' = [op |-> "cleanup_lock", shard |-> c.shard]
        /\ UNCHANGED <<now, settings, cache>>
        /\ UNCHANGED <<api_sent, api_rx, statVars, wsVars, chan, mainPc, subscription_id_map, mapCur, cacheSeq, validSeq, lastStep>>

\* retain: the closure on the shard's pairs, the guard dropped, the next shard
CleanupRetain ==
    LET c == callers.cleanup
        last == c.shard = Cardinality(Shards)
    IN  /\ c.pc = "retain"
        /\ cache' = RetainShard(cache, c.shard)
        /\ shard_lock' = [shard_lock EXCEPT ![c.shard] = "free"]
        /\ callers' = [callers EXCEPT
                          !.cleanup.pc = IF last THEN "done" ELSE "lock",
                          !.cleanup.shard = IF last THEN c.shard ELSE c.shard + 1,
                          !.cleanup.removed = c.removed + CacheLen(cache) - CacheLen(cache')]
        /\ lastOp' = [op |-> "cleanup_shard", shard |-> c.shard,
                      removed |-> CacheLen(cache) - CacheLen(cache')]
        /\ UNCHANGED <<now, settings>>
        /\ UNCHANGED <<api_sent, api_rx, statVars, wsVars, chan, mainPc, subscription_id_map, mapCur, cacheSeq, validSeq, lastStep>>

----------------------------------------------------------------------------
(* The outbound topic: tokio::sync::broadcast between the pipeline and the
   clients of /ws *)

\* broadcast::channel(1000), scaled to the exploration
ApiCapacity == 2
\* messages stored in one behaviour
MaxPublished == 4

ApiClients == {"c1", "c2"}

\* position of the oldest message the ring still holds
Oldest(sent) == IF sent > ApiCapacity THEN sent - ApiCapacity + 1 ELSE 1

\* a receiver that was never created
NoReceiver == [state |-> "none", next |-> 0, received |-> <<>>]

InitApi ==
    /\ api_sent = 0
    /\ api_rx = [c \in ApiClients |-> NoReceiver]

\* the clients whose receiver exists
Receivers(rx) == {c \in ApiClients : rx[c].state = "open"}

\* api_tx.send(msg), its result dropped by `let _ =`: stores the message when
\* a receiver exists, returns SendError otherwise; never waits
ApiSend ==
    /\ api_sent < MaxPublished
    /\ api_sent' = IF Receivers(api_rx) = {} THEN api_sent ELSE api_sent + 1
    /\ lastOp' = [op |-> "api_send", position |-> api_sent',
                  result |-> IF Receivers(api_rx) = {} THEN "SendError" ELSE "Ok"]
    /\ UNCHANGED <<api_rx, raceVars, statVars, wsVars, mainVars, chan, now, settings>>

\* handle_socket: state.tx.subscribe() sees the messages sent from now on
ApiSubscribe ==
    /\ \E c \in ApiClients :
          /\ api_rx[c].state = "none"
          /\ api_rx' = [api_rx EXCEPT ![c] = [state |-> "open", next |-> api_sent + 1, received |-> <<>>]]
          /\ lastOp' = [op |-> "api_subscribe", client |-> c]
    /\ UNCHANGED <<api_sent, raceVars, statVars, wsVars, mainVars, chan, now, settings>>

\* handle_socket after rx.recv() returned Err(Lagged): `while let Ok(msg)`
\* ends, the handler returns and the socket is dropped
AfterLagged(receiver, sent) == [receiver EXCEPT !.state = "ended"]

\* handle_socket: one rx.recv().await with a message or a lag to report, and
\* the socket.send of the message
ApiRecv ==
    /\ \E c \in ApiClients :
          LET receiver == api_rx[c]
              lagged == receiver.next < Oldest(api_sent)
          IN  /\ receiver.state = "open"
              /\ receiver.next <= api_sent
              /\ api_rx' = [api_rx EXCEPT ![c] =
                               IF lagged THEN AfterLagged(receiver, api_sent)
                               ELSE [receiver EXCEPT !.next = @ + 1,
                                                     !.received = Append(@, receiver.next)]]
              /\ lastOp' = [op |-> "api_recv", client |-> c, lagged |-> lagged,
                            missed |-> IF lagged THEN Oldest(api_sent) - receiver.next ELSE 0]
    /\ UNCHANGED <<api_sent, raceVars, statVars, wsVars, mainVars, chan, now, settings>>

\* handle_socket: socket.send fails because the client went away
ApiClientGone ==
    /\ \E c \in ApiClients :
          /\ api_rx[c].state = "open"
          /\ api_rx[c].next <= api_sent /\ api_rx[c].next >= Oldest(api_sent)
          /\ api_rx' = [api_rx EXCEPT ![c] = [@ EXCEPT !.state = "gone", !.next = @ + 1]]
          /\ lastOp' = [op |-> "api_gone", client |-> c]
    /\ UNCHANGED <<api_sent, raceVars, statVars, wsVars, mainVars, chan, now, settings>>

\* the state after main has loaded the settings, built its tables and
\* spawned the tasks
InitCore(pools, s) ==
    /\ settings_pools = pools
    /\ settings = s
    /\ lastOp = NoOp
    /\ hashOrder \in HashSetOrders({pools[i].pubkey : i \in DOMAIN pools})
    /\ wsPc = "top"
    /\ reconnect_attempts = 0
    /\ lastDelay = 0
    /\ lastEnd = "none"
    /\ sentReqs = <<>>
    /\ held = <<>>
    /\ nRecv = 0
    /\ chan = <<>>
    /\ mainPc = "running"
    /\ subscription_id_map = <<>>
    /\ mapCur = <<>>
    /\ cache = <<>>
    /\ cacheSeq = <<>>
    /\ validSeq = <<>>
    /\ now = 0
    /\ lastStep = NoStep
    /\ InitApi
    /\ InitCallers

\* ... with the statistical detector as StatisticalArbitrageDetector::new
\* leaves it, built by main with StatArbConfig::default()
InitState(pools, s) ==
    /\ InitCore(pools, s)
    /\ stat_config = StatArbConfigDefault
    /\ pair_stats = <<>>
    /\ spreadLog = <<>>
    /\ statCalls = 0

InitWith(pools) == InitState(pools, DefaultSettings)

Init == InitWith(<< Pool("PoolOrca", "SOL-USDC", "orca"), Pool("PoolMet", "SOL-USDC", "meteora") >>)

Next ==
    \/ Backoff
    \/ ConnectFail(MaxFailures)
    \/ ConnectOk
    \/ SubscribeAll
    \/ SubscribeFail(MaxFailures)
    \/ ReadText(Texts, MaxMsgs)
    \/ Forward
    \/ ForwardFail
    \/ ReadClose
    \/ ReadEnd
    \/ ReadError(MaxFailures)
    \/ ProcessMessage
    \/ Shutdown

Spec == Init /\ [][Next]_vars

NextPrice ==
    \/ Backoff
    \/ ConnectFail(MaxFailures)
    \/ ConnectOk
    \/ SubscribeAll
    \/ SubscribeFail(MaxFailures)
    \/ ReadText(PriceTexts, MaxMsgs)
    \/ Forward
    \/ ForwardFail
    \/ ReadClose
    \/ ReadEnd
    \/ ReadError(MaxFailures)
    \/ ProcessMessage
    \/ Shutdown

SpecPrice == Init /\ [][NextPrice]_vars

NextBackoff ==
    \/ Backoff
    \/ ConnectFail(MaxAttempts)
    \/ ConnectOk
    \/ SubscribeAll
    \/ SubscribeFail(MaxAttempts)
    \/ ReadClose
    \/ ReadEnd
    \/ ReadError(MaxAttempts)

SpecBackoff == Init /\ [][NextBackoff]_vars

\* The run loop scheduled fairly: the sleep at its top ends and the loop goes
\* on to connect_and_listen.
FairReconnect == WF_vars(Backoff)

SpecReconnect == Init /\ [][NextBackoff]_vars /\ FairReconnect

\* OrcaDecoder::decode applied to account buffers: every record with small
\* field values, alone and followed by up to MaxTrailing more bytes
DecodeMaxField == 4
MaxTrailing == 2
DecodeRecords ==
    {ClmmRecord(sqrt_price, liquidity, fee_rate) :
        sqrt_price \in 0..DecodeMaxField, liquidity \in 0..DecodeMaxField, fee_rate \in {0, 30}}
DecodeBuffers ==
    DecodeRecords \cup {Trailing(d, extra) : d \in DecodeRecords, extra \in 1..MaxTrailing}

\* lengths of cut-off buffers: below, at and above the discriminator, and one
\* byte short of the smallest struct
ShortLens == {0, 1, DiscriminatorLen - 1, DiscriminatorLen, DiscriminatorLen + 1, StructLen("clmm") - 1}
ShortRecords == {AmmRecord(1000, 2000, 9, 6), ClmmRecord(2, 1, 30), DlmmRecord(1, 10, 10000)}
ShortBuffers == ShortRecords \cup {Truncated(d, len) : d \in ShortRecords, len \in ShortLens}

\* any of the three decoders applied to a buffer
DecodeOp(buffers) ==
    /\ \E decoder_type \in {"Raydium", "Orca", "Meteora"} : \E data \in buffers :
          lastOp' = [op |-> "decode_with", decoder_type |-> decoder_type, data |-> data,
                     result |-> Decode(decoder_type, data)]
    /\ UNCHANGED <<sideVars, statVars, wsVars, mainVars, chan, now, settings>>

OrcaDecodeOp(buffers) ==
    /\ \E data \in buffers :
          lastOp' = [op |-> "decode", data |-> data, result |-> OrcaDecode(data)]
    /\ UNCHANGED <<sideVars, statVars, wsVars, mainVars, chan, now, settings>>

InitDecode ==
    InitState(<< Pool("PoolOrca", "SOL-USDC", "orca"), Pool("PoolMet", "SOL-USDC", "meteora") >>,
              DefaultSettings)

NextDecode == OrcaDecodeOp(DecodeBuffers) \/ DecodeOp(ShortBuffers)

SpecDecode == InitDecode /\ [][NextDecode]_vars

\* Startup with a pool list of two and every max_pools from 1 up that
\* Settings::validate lets through, then the WebSocketManager task alone
MaxPoolsTried == 3
PoolsSettings == {WithMaxPools(DefaultSettings, n) : n \in 0..MaxPoolsTried}

InitPools ==
    \E s \in PoolsSettings :
        /\ Validate(s)
        /\ InitState(<< Pool("PoolOrca", "SOL-USDC", "orca"), Pool("PoolMet", "SOL-USDC", "meteora") >>, s)

SpecPools == InitPools /\ [][NextBackoff]_vars

\* the (pair, dex) keys and the PriceData the cache specification writes
CacheKeys == {<<"SOL-USDC", "raydium">>, <<"SOL-USDC", "orca">>, <<"SOL-USDT", "raydium">>}
Sample(price, liquidity, slot, fee_rate) ==
    [price |-> price, liquidity |-> liquidity, slot |-> slot, fee_rate |-> fee_rate]
CacheSamples == {Sample(100, 20, 1, 3000), Sample(101, 16, 2, 2500)}

\* a TTL above and a TTL below the stale threshold
CacheSettings == {Settings(ttl, 2000, 5000, 2) : ttl \in {1, 3}}

InitCache ==
    \E s \in CacheSettings :
        InitState(<< Pool("PoolOrca", "SOL-USDC", "orca"), Pool("PoolMet", "SOL-USDC", "meteora") >>, s)

\* the cache under its callers: writers, readers, the cleanup task, the clock
NextCache ==
    \/ CacheSetOp(CacheKeys \X CacheSamples)
    \/ CacheCleanupOp
    \/ CacheReadOp(CacheKeys)
    \/ ScanPairOp({k[1] : k \in CacheKeys})
    \/ TriangularDetectOp(<< generate_common_paths("raydium")[6] >>)
    \/ Tick(MaxTicks * 1000)

SpecCache == InitCache /\ [][NextCache]_vars

\* A writer and the cleanup task on one cache, with a TTL of one clock step
MaxRaceSets == 2
MaxRaceCleanups == 2
MaxRaceTicks == 2
RaceKeys == {<<"SOL-USDC", "raydium">>, <<"SOL-USDC", "orca">>, <<"SOL-USDT", "raydium">>}
RaceSamples == {Sample(100, 20, 1, 3000)}
RaceSettings == Settings(1, 2000, 5000, 2)

InitRace == InitState(<< Pool("PoolRay", "SOL-USDC", "raydium") >>, RaceSettings)

NextRace ==
    \/ SetCall(RaceKeys \X RaceSamples, MaxRaceSets)
    \/ SetEntry
    \/ SetInsert
    \/ CleanupCall(MaxRaceCleanups)
    \/ CleanupLock
    \/ CleanupRetain
    \/ Tick(MaxRaceTicks * 1000)

SpecRace == InitRace /\ [][NextRace]_vars

\* the path the detector specification evaluates and its three legs
DetectPath == generate_common_paths("raydium")[1]

\* what the detector specification writes: three venues of the first leg's
\* pair (equal and different prices, slots inside and outside the tolerance,
\* fees that put the cycle just above the costs) and the two other legs
DetectWrites ==
    ({<<DetectPath.pair_1, "raydium">>} \X
        {Sample(100, 1000000, 100, 3000), Sample(100, 1000000, 103, 3000),
         Sample(100, 1000000, 100, 989900)})
    \cup ({<<DetectPath.pair_1, "orca">>} \X
        {Sample(102, 800000, 100, 3000), Sample(101, 800000, 100, 3000)})
    \cup ({<<DetectPath.pair_1, "meteora">>} \X
        {Sample(102, 900000, 103, 2500)})
    \cup ({<<DetectPath.pair_2, "raydium">>} \X
        {Sample(1, 1000000, 100, 0)})
    \cup ({<<DetectPath.pair_3, "raydium">>} \X
        {Sample(1, 1000000, 100, 0)})

DetectKeys == {w[1] : w \in DetectWrites}

\* stale after 1000 ms; the arbitrage thresholds of Settings::default()
DetectSettings == Settings(60, 1000, 5000, 2)

InitDetect ==
    InitState(<< Pool("PoolOrca", "SOL-USDC", "orca"), Pool("PoolMet", "SOL-USDC", "meteora") >>,
              DetectSettings)

\* the detectors over a cache that writers fill while time passes
NextDetect ==
    \/ CacheSetOp(DetectWrites)
    \/ ScanPairOp({DetectPath.pair_1})
    \/ TriangularDetectOp(<< DetectPath >>)
    \/ Tick(MaxDetectTicks * 1000)

SpecDetect == InitDetect /\ [][NextDetect]_vars

\* The end of process_message over a cache of raydium pools: the three legs
\* of the first path (leg 1 with a margin between the detector's 0.3 % and
\* the default configured 0.5 %, then a wide one; slots 100 and 102), leg 1
\* on a second venue, and a pair that is a leg of other paths only.
\* cycle of leg 1 at fee 0.98986: 100 * 0.01014 = 1.014, net 1.4 - 0.96 = 0.44 %
MaxScanTicks == 1
ScanPath == triangular_paths[1]
OtherPair == triangular_paths[5].pair_1
ScanWrites ==
    ({<<ScanPath.pair_1, "raydium">>} \X
        {Sample(100, 1000000, 100, 989860), Sample(100, 1000000, 102, 989860),
         Sample(100, 1000000, 100, 3000)})
    \cup ({<<ScanPath.pair_1, "orca">>} \X {Sample(102, 800000, 100, 3000)})
    \cup ({<<ScanPath.pair_2, "raydium">>} \X {Sample(1, 1000000, 100, 0)})
    \cup ({<<ScanPath.pair_3, "raydium">>} \X {Sample(1, 1000000, 100, 0)})
    \cup ({<<OtherPair, "raydium">>} \X {Sample(20, 1000000, 100, 2500)})

\* configured thresholds below and above the defaults of TriangularArbConfig
ScanSettings ==
    {Settings(60, 500, min_profit_percent, slot_tolerance) :
        min_profit_percent \in {1000, 5000}, slot_tolerance \in {1, 3}}

InitScan ==
    \E s \in ScanSettings :
        /\ Validate(s)
        /\ InitState(<< Pool("PoolRay", ScanPath.pair_1, "raydium") >>, s)

NextScan ==
    \/ UpdateAndScanOp(ScanWrites, triangular_paths)
    \/ Tick(MaxScanTicks * 1000)

SpecScan == InitScan /\ [][NextScan]_vars

\* The statistical detector over two pairs of one venue.  The detector is
\* met new with a window of StatWindowSmall, or with a window one above
\* MinHistory and a history one short of MinHistory (statistics still those
\* of PairStatistics::new), flat or scattered around 0.
MaxStatCalls == 2
MaxStatTicks == 1
StatWindowSmall == 1
StatWindowLarge == MinHistory + 1
StatPairA == ScanPath.pair_1
StatPairB == ScanPath.pair_2
StatTriples == {<<StatPairA, StatPairB, "raydium">>}
StatWrites ==
    ({<<StatPairA, "raydium">>} \X
        {Sample(0, 1000000, 100, 3000), Sample(1, 1000000, 100, 3000), Sample(8, 1000000, 100, 3000)})
    \cup ({<<StatPairB, "raydium">>} \X
        {Sample(1, 800000, 100, 3000), Sample(8, 800000, 100, 3000)})

PrefillFlat == [i \in 1..(MinHistory - 1) |-> XFin(0, 1)]
PrefillMixed ==
    [i \in 1..(MinHistory - 1) |->
        XFin(IF i = MinHistory - 1 THEN 0 ELSE IF i % 2 = 1 THEN 1 ELSE -1, 1)]

StatInits ==
    {[window_size |-> StatWindowSmall, log |-> <<>>],
     [window_size |-> StatWindowLarge, log |-> PrefillFlat],
     [window_size |-> StatWindowLarge, log |-> PrefillMixed]}

StatSettings == Settings(60, 500, 5000, 2)

InitStat ==
    \E i \in StatInits :
        LET key == StatsKey(StatPairA, StatPairB)
        IN  /\ InitCore(<< Pool("PoolRay", StatPairA, "raydium") >>, StatSettings)
            /\ stat_config = [StatArbConfigDefault EXCEPT !.window_size = i.window_size]
            /\ pair_stats = IF i.log = <<>> THEN <<>>
                            ELSE MapInsert(<<>>, key,
                                     [PairStatisticsNew(StatPairA, StatPairB)
                                          EXCEPT !.spread_history = i.log, !.last_updated = 0])
            /\ spreadLog = IF i.log = <<>> THEN <<>> ELSE MapInsert(<<>>, key, i.log)
            /\ statCalls = 0

NextStat ==
    \/ CacheSetOp(StatWrites)
    \/ StatDetectOp(StatTriples, MaxStatCalls)
    \/ ZScoreOp({XFin(3, 1)})
    \/ Tick(MaxStatTicks * 1000)

SpecStat == InitStat /\ [][NextStat]_vars

\* The three confidence functions applied to liquidities below, at and above
\* the 1,000,000 of full confidence, to slots within and beyond the ranges
\* the slot factors saturate at, to z-scores of every kind and to history
\* lengths below and above the 100 of full confidence.
ConfLiquidities == {0, 500000, 1000000, 2000000}
ConfSlots == {0, 1, 4, 20}
ConfSlotDiffs == {0, 2, 3, 50}
ConfLens == {0, 20, 100, 250}
ConfZ ==
    {[num |-> num, std |-> std] :
        num \in {XFin(-7, 1), XFin(0, 1), XFin(1, 1), XFin(5, 2), XInf, XNegInf, XNaN},
        std \in {StdAbs(1, 1), StdAbs(1, 10000), StdRoot(XFin(1, 1)), StdRoot(XFin(2, 1))}}

SpatialConfidenceOp(liquidities, slots) ==
    /\ \E buy_liquidity, sell_liquidity \in liquidities : \E buy_slot, sell_slot \in slots :
          LET buy == [liquidity |-> buy_liquidity, slot |-> buy_slot]
              sell == [liquidity |-> sell_liquidity, slot |-> sell_slot]
          IN  lastOp' = [op |-> "confidence", detector |-> "spatial",
                         args |-> <<buy, sell>>, result |-> calculate_confidence(buy, sell)]
    /\ UNCHANGED <<sideVars, statVars, wsVars, mainVars, chan, now, settings>>

TriangularConfidenceOp(liquidities, slot_diffs) ==
    /\ \E min_liquidity \in liquidities : \E slot_diff \in slot_diffs :
          lastOp' = [op |-> "confidence", detector |-> "triangular",
                     args |-> <<min_liquidity, slot_diff>>,
                     result |-> calculate_triangular_confidence(min_liquidity, slot_diff)]
    /\ UNCHANGED <<sideVars, statVars, wsVars, mainVars, chan, now, settings>>

StatConfidenceOp(zs, lens) ==
    /\ \E z_score \in zs : \E history_len \in lens :
          lastOp' = [op |-> "confidence", detector |-> "statistical",
                     args |-> <<z_score, history_len>>,
                     result |-> stat_calculate_confidence(z_score, history_len)]
    /\ UNCHANGED <<sideVars, statVars, wsVars, mainVars, chan, now, settings>>

InitConfidence == InitState(<< Pool("PoolRay", ScanPath.pair_1, "raydium") >>, DefaultSettings)

NextConfidence ==
    \/ SpatialConfidenceOp(ConfLiquidities, ConfSlots)
    \/ TriangularConfidenceOp(ConfLiquidities, ConfSlotDiffs)
    \/ StatConfidenceOp(ConfZ, ConfLens)

SpecConfidence == InitConfidence /\ [][NextConfidence]_vars

\* The outbound topic with the pipeline publishing and two clients of /ws.
InitApiSpec == InitState(<< Pool("PoolRay", "SOL-USDC", "raydium") >>, DefaultSettings)

NextApi == ApiSend \/ ApiSubscribe \/ ApiRecv \/ ApiClientGone

SpecApi == InitApiSpec /\ [][NextApi]_vars

\* The running program: the WebSocket task, the main event loop and the
\* health monitor task, each scheduled fairly by the runtime.
RunTexts == {Ack(1, 1), Notification(1, 7, ClmmOk)}

\* the health monitor task: every 60 s, log health_cache.len(); beat tells
\* one tick of the interval from the next
HealthCheck ==
    /\ mainPc = "running"
    /\ lastOp' = [op |-> "health", cache_entries |-> CacheLen(cache),
                  beat |-> IF lastOp.op = "health" THEN 1 - lastOp.beat ELSE 0]
    /\ UNCHANGED <<sideVars, statVars, wsVars, mainVars, chan, now, settings>>

NextRun ==
    \/ Backoff
    \/ ConnectFail(MaxFailures)
    \/ ConnectOk
    \/ SubscribeAll
    \/ SubscribeFail(MaxFailures)
    \/ ReadText(RunTexts, MaxMsgs)
    \/ Forward
    \/ ForwardFail
    \/ ReadClose
    \/ ReadEnd
    \/ ReadError(MaxFailures)
    \/ ProcessMessage
    \/ HealthCheck
    \/ Shutdown

FairRun == WF_vars(HealthCheck) /\ WF_vars(ProcessMessage) /\ WF_vars(Forward)

SpecRun == Init /\ [][NextRun]_vars /\ FairRun

\* The pipeline over one session without failures, with frames enough to
\* confirm both subscriptions and to quote the pair on both venues.
MaxPublishMsgs == 4
PublishTexts ==
    {Ack(1, 1), Ack(2, 2)} \cup {Notification(s, 7, d) : s \in {1, 2}, d \in {ClmmOk, DlmmOk}}

NextPublish ==
    \/ Backoff
    \/ ConnectOk
    \/ SubscribeAll
    \/ ReadText(PublishTexts, MaxPublishMsgs)
    \/ Forward
    \/ ProcessMessage

SpecPublish == Init /\ [][NextPublish]_vars

\* The pipeline fed with confirmations whose id lies in and out of 1..=N
\* (N = 2 pools), 0 among them, and with a notification
MaxAckMsgs == 3
AckTexts ==
    {Ack(id, 1) : id \in 0..3} \cup {Ack(1, NotU64), Notification(1, 7, ClmmOk)}

NextAck ==
    \/ Backoff
    \/ ConnectOk
    \/ SubscribeAll
    \/ ReadText(AckTexts, MaxAckMsgs)
    \/ Forward
    \/ ProcessMessage

SpecAck == Init /\ [][NextAck]_vars

\* The run loop with every way a session can end, the consumer stopping or
\* panicking included
MaxSessionMsgs == 2
SessionTexts == {Ack(0, 1), Ack(1, 1)}

NextSession ==
    \/ Backoff
    \/ ConnectFail(MaxFailures)
    \/ ConnectOk
    \/ SubscribeAll
    \/ SubscribeFail(MaxFailures)
    \/ ReadText(SessionTexts, MaxSessionMsgs)
    \/ Forward
    \/ ForwardFail
    \/ ReadClose
    \/ ReadEnd
    \/ ReadError(MaxFailures)
    \/ ProcessMessage
    \/ Shutdown

SpecSession == Init /\ [][NextSession]_vars

\* The pipeline over two Whirlpool pools of one pair, configured under venue
\* names that differ in case, with liquidities below, at and above 2^64
MaxLiquidityMsgs == 4
LiquidityPools == << Pool("PoolOrca", "SOL-USDC", "orca"), Pool("PoolOrca2", "SOL-USDC", "Orca") >>
LiquidityTexts ==
    {Ack(1, 1), Ack(2, 2)}
    \cup {Notification(1, 7, ClmmRecord(1, l, 30)) : l \in {U64 - 1, U64}}
    \cup {Notification(2, 7, ClmmRecord(2, l, 30)) : l \in {U64 + 2, 2 * U64 + 3}}

InitLiquidity == InitWith(LiquidityPools)

NextLiquidity ==
    \/ Backoff
    \/ ConnectOk
    \/ SubscribeAll
    \/ ReadText(LiquidityTexts, MaxLiquidityMsgs)
    \/ Forward
    \/ ProcessMessage

SpecLiquidity == InitLiquidity /\ [][NextLiquidity]_vars

----------------------------------------------------------------------------
(* Properties *)

\* the step is one turn of the main loop; it processes Head(chan)
ProcStep == lastStep'.seq # lastStep.seq

InSession == wsPc \in {"subscribe", "read", "forward"}

\* the previous connect_and_listen call got past connect_async
ConnectedEnds == {"subscribe_failed", "close", "end_of_stream", "read_error", "send_failed"}

Seqs(ms) == [i \in DOMAIN ms |-> ms[i].seq]

\* C1: when an acknowledgement {id: n, result: s} is processed, the pool
\* recorded for s is the pool whose accountSubscribe request carried id n.
C1_AckRecordsSubscribedPool ==
    [][ (ProcStep /\ Head(chan).body.kind = "ack" /\ Head(chan).body.id \in 1..NumPools)
        => subscription_id_map'[Head(chan).body.result]
             = SubscribeRequests(hashOrder)[Head(chan).body.id].pubkey ]_vars

\* C2: once the session reads (and so before any frame is forwarded) exactly
\* one accountSubscribe request per configured pool has been sent, and the
\* request ids are exactly 1..N, each used once.
C2_OneRequestPerPool ==
    wsPc \in {"read", "forward"} =>
        /\ Len(sentReqs) = NumPools
        /\ {sentReqs[i].id : i \in DOMAIN sentReqs} = 1..NumPools
        /\ \A i \in DOMAIN subscriptions :
              Cardinality({j \in DOMAIN sentReqs : sentReqs[j].pubkey = subscriptions[i]}) = 1

\* a frame read in a session with its subscriptions fully sent waits to be forwarded
C2_Witness == wsPc = "forward" /\ held # <<>> /\ Len(sentReqs) = NumPools

\* C3: while a session is open the subscription map holds no entry whose
\* acknowledgement belongs to an earlier session.
C3_MapDiscardedOnReconnect ==
    InSession => \A s \in DOMAIN subscription_id_map : mapCur[s]

\* C4: the delay slept before a reconnect is 100 ms after the first failed
\* attempt, doubles with every further failed attempt and is capped at 30 s.
C4_FullExponentialBackoff ==
    (wsPc = "connect" /\ reconnect_attempts > 0)
        => lastDelay = Min(100 * Pow(2, reconnect_attempts - 1), 30000)

\* C5: the failure counter is 0 as soon as a connection attempt has succeeded,
\* and after a session that connected the next delay is no longer than the
\* delay after a single failure.
C5_ResetOnConnect ==
    /\ InSession => reconnect_attempts = 0
    /\ (wsPc = "connect" /\ lastEnd \in ConnectedEnds) => lastDelay <= ReconnectDelay(1)

\* C6: the channel never holds more than its capacity, and while the consumer
\* is alive the frames read but not yet processed are exactly the frames after
\* the last processed one, in arrival order: none dropped, none duplicated.
C6_BoundedLossless ==
    /\ Len(chan) <= ChannelCapacity
    /\ mainPc = "running" =>
          Seqs(chan \o held) = [i \in 1..(nRecv - lastStep.seq) |-> lastStep.seq + i]

\* the channel is full and the producer waits with one more frame
C6_Witness == mainPc = "running" /\ Len(chan) = ChannelCapacity /\ wsPc = "forward" /\ held # <<>>

\* C7: the cache entry of a (pair, venue) holds the last notification routed
\* to it that produced a valid (finite, > 0) price.
C7_HoldsLastValid ==
    /\ DOMAIN cacheSeq = DOMAIN validSeq
    /\ \A k \in DOMAIN cacheSeq : cacheSeq[k] = validSeq[k]

\* C8: every cache entry written by the pipeline has a finite, strictly
\* positive price.
C8_CachedPriceFinitePositive ==
    \A pair \in DOMAIN cache : \A dex \in DOMAIN cache[pair] :
        F64FinitePositive(cache[pair][dex].price)

\* C9: a notification whose subscription id is not in the subscription map
\* changes neither the cache nor the map, publishes nothing, runs no detector
\* and leaves the loop running on the rest of the channel.
C9_UnknownSubscriptionDropped ==
    [][ (ProcStep /\ Head(chan).body.kind = "notification"
                  /\ Head(chan).body.sub \notin DOMAIN subscription_id_map)
        => /\ cache' = cache
           /\ subscription_id_map' = subscription_id_map
           /\ lastStep'.published = <<>>
           /\ lastStep'.scanned = "none"
           /\ mainPc' = "running"
           /\ chan' = Tail(chan) ]_vars

\* a notification with an unknown id was processed while other ids are known
C9_Witness ==
    /\ lastStep.outcome = "unknown_subscription"
    /\ subscription_id_map # <<>>
    /\ mainPc = "running"

\* the layout a pool's decoder accepts
LayoutOf(decoder_type) ==
    CASE decoder_type = "Raydium" -> "amm"
      [] decoder_type = "Orca"    -> "clmm"
      [] decoder_type = "Meteora" -> "dlmm"

\* the frame fails in process_message: unparsable JSON, invalid base64, or
\* account bytes the pool's decoder rejects
FailingFrame(m) ==
    \/ m.body.kind = "garbage"
    \/ /\ m.body.kind = "notification"
       /\ m.body.sub \in DOMAIN subscription_id_map
       /\ \/ m.body.data.layout = "not_base64"
          \/ m.body.data.layout #
                LayoutOf(pool_lookup[subscription_id_map[m.body.sub]].decoder_type)

\* C10: a frame that fails on JSON, base64 or decoding changes neither the
\* cache nor the subscription map, publishes nothing, and the loop stays
\* running with the rest of the channel still to process.
C10_FailureNonFatal ==
    [][ (ProcStep /\ FailingFrame(Head(chan)))
        => /\ cache' = cache
           /\ subscription_id_map' = subscription_id_map
           /\ lastStep'.published = <<>>
           /\ lastStep'.scanned = "none"
           /\ mainPc' = "running"
           /\ chan' = Tail(chan) ]_vars

\* a decoder error happened and a later frame is still in the channel
C10_Witness ==
    /\ lastStep.outcome = "err_decode"
    /\ mainPc = "running"
    /\ chan # <<>>

\* the key is in the two-level map
Present(cch, k) == k[1] \in DOMAIN cch /\ k[2] \in DOMAIN cch[k[1]]

\* C11: a set(p, v, d) makes get(p, v) return d, also when (p, v) already
\* held other data (set d1, then set d2: d2 is returned); it leaves every
\* other entry as it was and (p, v) counts as one entry.
C11_SetOverwrites ==
    [][ lastOp'.op = "set" =>
          LET k == <<lastOp'.pair, lastOp'.dex>>
          IN  /\ Get(cache', k[1], k[2]) = [some |-> TRUE, v |-> lastOp'.data]
              /\ \A o \in CacheKeys \ {k} : Get(cache', o[1], o[2]) = Get(cache, o[1], o[2])
              /\ CacheLen(cache') = CacheLen(cache) + (IF Present(cache, k) THEN 0 ELSE 1) ]_vars

\* a set replaced different data while another entry was in the cache
C11_Witness == lastOp.op = "set" /\ lastOp.overwrote /\ CacheLen(cache) >= 2

\* C12: a cleanup removes exactly the entries whose age exceeds the TTL and
\* leaves the others as they were; a second cleanup right after it changes
\* nothing.
C12_CleanupExactAndIdempotent ==
    [][ lastOp'.op = "cleanup" =>
          /\ \A k \in CacheKeys :
                Get(cache', k[1], k[2]) =
                    IF Present(cache, k) /\ now - cache[k[1]][k[2]].timestamp <= ttl_ms
                    THEN [some |-> TRUE, v |-> cache[k[1]][k[2]]]
                    ELSE [some |-> FALSE]
          /\ CleanupStaleEntries(cache') = cache' ]_vars

\* a cleanup evicted an entry and kept another
C12_Witness == lastOp.op = "cleanup" /\ lastOp.removed >= 1 /\ lastOp.kept >= 1

\* C13: no pair of get_all_pairs has an empty venue map.
C13_NoEmptyPair ==
    \A pair \in GetAllPairs(cache) : GetAllDexes(cache, pair) # {}

\* a cleanup evicted the last venue of a pair while another pair stayed
C13_Witness == lastOp.op = "cleanup" /\ lastOp.dropped >= 1 /\ GetAllPairs(cache) # {}

\* C14: len() is the number of (pair, venue) keys get answers, and is_empty()
\* holds exactly when there is none.
C14_LenCountsEntries ==
    LET answered == {k \in CacheKeys : Get(cache, k[1], k[2]).some}
    IN  /\ CacheLen(cache) = Cardinality(answered)
        /\ IsEmpty(cache) <=> (answered = {})

\* after an eviction two venues of one pair are left
C14_Witness ==
    /\ lastOp.op = "cleanup" /\ lastOp.removed >= 1
    /\ CacheLen(cache) = 2 /\ Cardinality(GetAllPairs(cache)) = 1

\* C15: get and get_all_dexes return what the map holds, stale or not, and
\* an entry leaves the cache only in a cleanup (never in a read or a scan).
C15_ReadsKeepStaleEntries ==
    [][ /\ lastOp'.op = "get" =>
              LET k == <<lastOp'.pair, lastOp'.dex>>
              IN  /\ Present(cache, k) => lastOp'.result = [some |-> TRUE, v |-> cache[k[1]][k[2]]]
                  /\ ~Present(cache, k) => ~lastOp'.result.some
                  /\ \A o \in CacheKeys :
                        (o[1] = k[1] /\ Present(cache, o)) =>
                            <<o[2], cache[o[1]][o[2]]>> \in lastOp'.all
        /\ \A k \in CacheKeys :
              (Present(cache, k) /\ ~Present(cache', k)) => lastOp'.op = "cleanup" ]_vars

\* a get returned an entry older than the stale threshold
C15_Witness == lastOp.op = "get" /\ lastOp.result.some /\ IsStale(lastOp.result.v)

\* the venues of a pair whose entry is no older than the stale threshold
FreshVenues(pair) ==
    {dex \in {k[2] : k \in {q \in DetectKeys : q[1] = pair}} :
        /\ Present(cache, <<pair, dex>>)
        /\ now - cache[pair][dex].timestamp <= settings.monitoring.stale_threshold_ms}

\* C16: an opportunity of the spatial scan refers to two cached entries of
\* the pair that are no older than the stale threshold, and a pair with fewer
\* than two such venues yields nothing.
C16_SpatialSkipsStale ==
    lastOp.op = "scan" =>
        /\ lastOp.result.some =>
              /\ lastOp.result.v.buy_dex \in FreshVenues(lastOp.pair)
              /\ lastOp.result.v.sell_dex \in FreshVenues(lastOp.pair)
              /\ lastOp.result.v.buy_price = ToX(cache[lastOp.pair][lastOp.result.v.buy_dex].price)
              /\ lastOp.result.v.sell_price = ToX(cache[lastOp.pair][lastOp.result.v.sell_dex].price)
        /\ Cardinality(FreshVenues(lastOp.pair)) < 2 => ~lastOp.result.some

\* a scan emitted while a stale entry of the pair was in the cache
C16_Witness ==
    /\ lastOp.op = "scan" /\ lastOp.result.some
    /\ \E k \in DetectKeys : k[1] = lastOp.pair /\ Present(cache, k) /\ IsStale(cache[k[1]][k[2]])

\* the slots of the three legs of a path, when all are cached
LegSlots(path) ==
    {cache[pair][path.dex].slot : pair \in {path.pair_1, path.pair_2, path.pair_3}}

\* C17: an emitted spatial opportunity has |buy.slot - sell.slot| within the
\* detector's slot tolerance, whichever of the two slots is larger, and an
\* emitted triangular opportunity has max(slot) - min(slot) of its three legs
\* within the detector's slot tolerance.
C17_SlotToleranceRespected ==
    /\ (lastOp.op = "scan" /\ lastOp.result.some) =>
          LET buy == cache[lastOp.pair][lastOp.result.v.buy_dex]
              sell == cache[lastOp.pair][lastOp.result.v.sell_dex]
          IN  /\ buy.slot - sell.slot <= settings.arbitrage.slot_tolerance
              /\ sell.slot - buy.slot <= settings.arbitrage.slot_tolerance
    /\ (lastOp.op = "detect" /\ lastOp.result.some) =>
          \A a, b \in LegSlots(lastOp.path) : a - b <= TriangularArbConfigDefault.slot_tolerance

\* a scan rejected a profitable spread of two fresh venues whose buy slot is
\* ahead of the sell slot by more than the tolerance
C17_Witness ==
    /\ lastOp.op = "scan" /\ ~lastOp.result.some
    /\ FreshVenues(lastOp.pair) = {"raydium", "orca"}
    /\ cache[lastOp.pair]["raydium"].price.v = 100
    /\ cache[lastOp.pair]["raydium"].fee_rate = 3000
    /\ cache[lastOp.pair]["orca"].price.v = 102
    /\ cache[lastOp.pair]["raydium"].slot
          > cache[lastOp.pair]["orca"].slot + settings.arbitrage.slot_tolerance

\* the claim's conditions on a buy venue b and a sell venue s of a pair: two
\* venues, slots within the tolerance, net% above min_profit% (percentages
\* in units of 0.0001 %, the inequality multiplied by buy.price)
SpatialCostUnits(buy, sell) ==
    buy.fee_rate + sell.fee_rate + settings.fees.estimated_slippage
        + settings.fees.gas_cost_percent + settings.fees.jito_tip_percent
SpatialQualifies(pair, b, s) ==
    LET buy == cache[pair][b]
        sell == cache[pair][s]
    IN  /\ b # s
        /\ buy.slot - sell.slot <= settings.arbitrage.slot_tolerance
        /\ sell.slot - buy.slot <= settings.arbitrage.slot_tolerance
        /\ (sell.price.v - buy.price.v) * 1000000
              > (SpatialCostUnits(buy, sell) + settings.arbitrage.min_profit_percent) * buy.price.v

\* C18: the spatial scan emits exactly when, among the fresh venues, the
\* cheapest and the dearest venue differ, their slots are within the
\* tolerance and net% = gross% - costs% exceeds min_profit%; the opportunity
\* carries these venues and prices, this net% and floor(0.05 * min liquidity).
\* (With equal prices any cheapest and any dearest venue may be the one taken.)
C18_SpatialEmitsIffProfitable ==
    lastOp.op = "scan" =>
        LET pair == lastOp.pair
            fresh == FreshVenues(pair)
            cheapest == {b \in fresh : \A d \in fresh : cache[pair][b].price.v <= cache[pair][d].price.v}
            dearest == {s \in fresh : \A d \in fresh : cache[pair][s].price.v >= cache[pair][d].price.v}
        IN  /\ lastOp.result.some =>
                  \E b \in cheapest : \E s \in dearest :
                      LET buy == cache[pair][b]
                          sell == cache[pair][s]
                          o == lastOp.result.v
                      IN  /\ SpatialQualifies(pair, b, s)
                          /\ o.opportunity_type = "Spatial" /\ o.token_pair = pair
                          /\ o.buy_dex = b /\ o.sell_dex = s
                          /\ o.buy_price = XFin(buy.price.v, 1)
                          /\ o.sell_price = XFin(sell.price.v, 1)
                          /\ o.net_profit_percent =
                                XFin((sell.price.v - buy.price.v) * 1000000
                                         - SpatialCostUnits(buy, sell) * buy.price.v,
                                     buy.price.v * 10000)
                          /\ o.recommended_size = Min(buy.liquidity, sell.liquidity) \div 20
            /\ ~lastOp.result.some =>
                  \/ fresh = {}
                  \/ \E b \in cheapest : \E s \in dearest : ~SpatialQualifies(pair, b, s)

\* a scan over three fresh venues emitted
C18_Witness ==
    lastOp.op = "scan" /\ lastOp.result.some /\ Cardinality(FreshVenues(lastOp.pair)) = 3

\* the pairs of a path's three legs
LegPairs(path) == {path.pair_1, path.pair_2, path.pair_3}

\* all three legs of the path are cached and none is older than the stale threshold
LegsFresh(path) ==
    \A pair \in LegPairs(path) :
        /\ Present(cache, <<pair, path.dex>>)
        /\ now - cache[pair][path.dex].timestamp <= settings.monitoring.stale_threshold_ms

\* C19: the triangular detector emits for a path only when its three legs
\* are cached on the path's venue and none of them is stale.
C19_TriangularNeedsFreshLegs ==
    (lastOp.op = "detect" /\ lastOp.result.some) => LegsFresh(lastOp.path)

\* a detect returned nothing for a path whose legs are all cached, the first
\* fresh and another one stale
C19_Witness ==
    /\ lastOp.op = "detect" /\ ~lastOp.result.some
    /\ \A pair \in LegPairs(lastOp.path) : Present(cache, <<pair, lastOp.path.dex>>)
    /\ ~IsStale(cache[lastOp.path.pair_1][lastOp.path.dex])
    /\ IsStale(cache[lastOp.path.pair_3][lastOp.path.dex])

\* r1 * r2 * r3 for the cached legs of a path, r = price * (1 - fee_rate)
CycleProduct(path) ==
    LET r(pair) == XFin(cache[pair][path.dex].price.v * (1000000 - cache[pair][path.dex].fee_rate),
                        1000000)
    IN  XMul(XMul(r(path.pair_1), r(path.pair_2)), r(path.pair_3))

\* gas% + tip% + 3 * slippage%, as a fraction
CycleCostsFraction ==
    XFin(settings.fees.gas_cost_percent + settings.fees.jito_tip_percent
             + 3 * settings.fees.estimated_slippage, 1000000)

\* the legs are cached, fresh and within the slot tolerance
LegsAligned(path) ==
    /\ LegsFresh(path)
    /\ \A a, b \in LegSlots(path) : a - b <= TriangularArbConfigDefault.slot_tolerance

\* C20 as stated: with fresh, slot-aligned legs, r1 * r2 * r3 > 1 + costs
\* makes the triangular detector emit with buy_price 1.0 and sell_price
\* r1 * r2 * r3.
C20_CycleEmitsAboveCosts ==
    (/\ lastOp.op = "detect"
     /\ LegsAligned(lastOp.path)
     /\ XGt(CycleProduct(lastOp.path), XAdd(XFin(1, 1), CycleCostsFraction)))
        => /\ lastOp.result.some
           /\ lastOp.result.v.buy_price = XFin(1, 1)
           /\ lastOp.result.v.sell_price = CycleProduct(lastOp.path)

\* C20 as amended: with fresh, slot-aligned legs, r1 * r2 * r3 > 1 + costs +
\* the detector's min_profit (net% > min_profit%) makes the triangular
\* detector emit with buy_price 1.0 and sell_price r1 * r2 * r3.
C20_CycleEmitsAboveCostsAndMinProfit ==
    (/\ lastOp.op = "detect"
     /\ LegsAligned(lastOp.path)
     /\ XGt(CycleProduct(lastOp.path),
            XAdd(XAdd(XFin(1, 1), CycleCostsFraction),
                 XFin(TriangularArbConfigDefault.min_profit_percent, 1000000))))
        => /\ lastOp.result.some
           /\ lastOp.result.v.buy_price = XFin(1, 1)
           /\ lastOp.result.v.sell_price = CycleProduct(lastOp.path)

\* a detect over three fresh, aligned legs emitted
C20_Witness ==
    lastOp.op = "detect" /\ lastOp.result.some /\ LegsAligned(lastOp.path)

\* C26 as stated: the accountSubscribe requests of a session never number
\* more than monitoring.max_pools.
C26_SubscriptionsWithinMaxPools == Len(sentReqs) <= settings.monitoring.max_pools

\* C30 as stated: a CLMM buffer followed by additional bytes decodes, and
\* to the same sqrt_price, liquidity and fee_rate as without them.
C30_TrailingBytesTolerated ==
    (lastOp.op = "decode" /\ lastOp.data.layout = "trailing" /\ lastOp.data.record.layout = "clmm")
        => /\ lastOp.result.ok
           /\ lastOp.result = OrcaDecode(lastOp.data.record)

\* the name an opportunity of the path carries in token_pair
PathName(path) ==
    path.token_start \o "->" \o path.token_mid \o "->" \o path.token_end \o "->" \o path.token_start

\* the triangular opportunities among the messages of a scan
TriangularFound(published) ==
    {published[i].opp : i \in {j \in DOMAIN published :
        /\ published[j].type = "OpportunityFound"
        /\ published[j].opp.opportunity_type = "Triangular"}}

\* C27 as stated: after an update of pair P the spatial scan runs for P and
\* detect runs only for the paths that have P as a leg, so every triangular
\* opportunity published for the update is of a path containing P.
C27_OnlyPathsContainingPair ==
    lastOp.op = "update" =>
        /\ lastOp.scanned = lastOp.pair
        /\ \A path \in lastOp.evaluated : lastOp.pair \in LegPairs(path)
        /\ \A opp \in TriangularFound(lastOp.published) :
              \E path \in Range(triangular_paths) :
                  PathName(path) = opp.token_pair /\ lastOp.pair \in LegPairs(path)

\* C29 as stated: every triangular opportunity the pipeline publishes has
\* net% above the configured arbitrage.min_profit_percent and a slot span of
\* its legs within the configured arbitrage.slot_tolerance.
C29_TriangularObeysConfiguration ==
    lastOp.op = "update" =>
        \A opp \in TriangularFound(lastOp.published) :
            /\ XGt(opp.net_profit_percent, PctX(settings.arbitrage.min_profit_percent))
            /\ \A path \in Range(triangular_paths) :
                  PathName(path) = opp.token_pair =>
                      \A a, b \in LegSlots(path) : a - b <= settings.arbitrage.slot_tolerance

\* a confidence value lies in [0, 1]; a * sqrt(rad) + b with a, b >= 0 does
\* when a^2 * rad <= (1 - b)^2 and b <= 1
InUnit(c) ==
    \/ c.cls = "fin" /\ 0 <= c.num /\ c.num <= c.den
    \/ /\ c.cls = "surd"
       /\ c.a.cls = "fin" /\ c.b.cls = "fin" /\ c.rad.cls = "fin"
       /\ c.a.num >= 0 /\ c.b.num >= 0 /\ c.rad.num >= 0
       /\ c.b.num <= c.b.den
       /\ ~XGt(XMul(XMul(c.a, c.a), c.rad), XMul(XSub(XFin(1, 1), c.b), XSub(XFin(1, 1), c.b)))

\* C21: the confidence the spatial, the triangular and the statistical
\* detector compute for an opportunity lies in [0, 1], whatever the
\* liquidities, slots, z-score and history length.
C21_ConfidenceInUnitInterval == lastOp.op = "confidence" => InUnit(lastOp.result)

\* a spatial confidence for liquidities above the cap and a slot distance
\* beyond the saturation of the slot factor
C21_Witness ==
    /\ lastOp.op = "confidence" /\ lastOp.detector = "spatial"
    /\ lastOp.args[1].liquidity > 1000000 /\ lastOp.args[2].liquidity > 1000000
    /\ lastOp.args[1].slot - lastOp.args[2].slot > 10

NonPositive(price) == price.cls = "fin" /\ price.v <= 0

\* C23 as stated: a detect call that fetched a price <= 0 emits nothing and
\* leaves the statistics as they were.
C23_NonPositivePriceSkipped ==
    [][ (/\ lastOp'.op = "stat_detect"
         /\ statCalls' # statCalls
         /\ \/ lastOp'.price_a.some /\ NonPositive(lastOp'.price_a.v.price)
            \/ lastOp'.price_b.some /\ NonPositive(lastOp'.price_b.v.price))
            => (~lastOp'.result.some /\ pair_stats' = pair_stats) ]_vars

\* C24 as stated: an emitted statistical opportunity has pair A as its buy
\* side and pair B as its sell side when z < 0, and the other way round when
\* z > 0 (the sides of an Opportunity are its buy_price and sell_price).
C24_DirectionBySignOfZ ==
    (lastOp.op = "stat_detect" /\ lastOp.result.some) =>
        LET opp == lastOp.result.v
            a == ToX(lastOp.price_a.v.price)
            b == ToX(lastOp.price_b.v.price)
        IN  /\ ZNegative(lastOp.z_score.v) => (opp.buy_price = a /\ opp.sell_price = b)
            /\ ~ZNegative(lastOp.z_score.v) => (opp.buy_price = b /\ opp.sell_price = a)

\* two z-scores are the same number
ZEq(z1, z2) ==
    IF z1.num.cls = "fin" /\ z2.num.cls = "fin" /\ z1.std.kind = "root" /\ z2.std.kind = "root"
    THEN /\ XSign(z1.num) = XSign(z2.num)
         /\ XMul(XMul(z1.num, z1.num), z2.std.v) = XMul(XMul(z2.num, z2.num), z1.std.v)
    ELSE \/ z1 = z2
         \/ z1.num = XFin(0, 1) /\ z2.num = XFin(0, 1)

\* mean and standard deviation of a sequence of spreads: the mean of the
\* squares less the square of the mean, floored at 0.0001
MeanOf(h) == XDiv(SumX(h), XFin(Len(h), 1))
StdOf(h) ==
    LET variance == XSub(XDiv(SumX([i \in DOMAIN h |-> XMul(h[i], h[i])]), XFin(Len(h), 1)),
                         XMul(MeanOf(h), MeanOf(h)))
    IN  IF variance.cls = "fin" /\ variance.num >= (variance.den + 48045300) \div 48045301
        THEN [kind |-> "root", v |-> variance]
        ELSE [kind |-> "abs", v |-> XFin(1, 10000)]

\* C25 as stated: for a pair whose history before the call has at least 20
\* samples, mean m and standard deviation s, the z-score detect uses for the
\* spread x is (x - m) / s; calculate_z_score(x) is (x - mean) / std.
C25_ZScoreOfExistingHistory ==
    /\ (/\ lastOp.op = "stat_detect" /\ lastOp.z_score.some
        /\ lastOp.before.some /\ Len(lastOp.before.v.spread_history) >= MinHistory)
           => ZEq(lastOp.z_score.v,
                  [num |-> XSub(lastOp.spread.v, MeanOf(lastOp.before.v.spread_history)),
                   std |-> StdOf(lastOp.before.v.spread_history)])
    /\ lastOp.op = "z_score"
           => ZEq(lastOp.result,
                  [num |-> XSub(lastOp.x, pair_stats[lastOp.key].mean_spread),
                   std |-> pair_stats[lastOp.key].std_dev_spread])

\* C25 as amended: the z-score detect uses for the spread x is (x - m') / s'
\* with m' and s' the mean and the standard deviation (floored at 0.0001) of
\* the history after x was appended and the window trimmed;
\* calculate_z_score(x) is (x - mean) / std.
C25_ZScoreOfUpdatedHistory ==
    /\ (lastOp.op = "stat_detect" /\ lastOp.z_score.some)
           => ZEq(lastOp.z_score.v,
                  [num |-> XSub(lastOp.spread.v, MeanOf(pair_stats[lastOp.key].spread_history)),
                   std |-> StdOf(pair_stats[lastOp.key].spread_history)])
    /\ lastOp.op = "z_score"
           => ZEq(lastOp.result,
                  [num |-> XSub(lastOp.x, pair_stats[lastOp.key].mean_spread),
                   std |-> pair_stats[lastOp.key].std_dev_spread])

\* detect computed a z-score other than 0 over a history that had 20 samples
\* or more before the call
C25_Witness ==
    /\ lastOp.op = "stat_detect" /\ lastOp.z_score.some
    /\ lastOp.before.some /\ Len(lastOp.before.v.spread_history) >= MinHistory
    /\ XSign(lastOp.z_score.v.num) # 0

\* C28 as stated: while the program runs, the statistical detector's detect
\* is executed again and again.
C28_StatisticalDetectRunsPeriodically == []<>(lastOp.op = "stat_detect" \/ mainPc = "stopped")

\* the smallest buffer a decoder's layout fits in
MinLayoutLen(decoder_type) ==
    CASE decoder_type = "Raydium" -> StructLen("amm")
      [] decoder_type = "Orca"    -> DiscriminatorLen + StructLen("clmm")
      [] decoder_type = "Meteora" -> DiscriminatorLen + StructLen("dlmm")

\* C31: a decoder given a buffer shorter than its minimum layout length
\* returns a decode failure: it neither panics nor yields a PoolState.
C31_ShortBufferFailsToDecode ==
    (/\ lastOp.op = "decode_with"
     /\ lastOp.data.layout = "truncated"
     /\ lastOp.data.len < MinLayoutLen(lastOp.decoder_type))
        => lastOp.result = DecodeErr

\* the CLMM decoder was given a buffer shorter than the discriminator
C31_Witness ==
    /\ lastOp.op = "decode_with" /\ lastOp.decoder_type = "Orca"
    /\ lastOp.data.layout = "truncated" /\ lastOp.data.len < DiscriminatorLen
    /\ lastOp.result = DecodeErr

\* C32 as stated: a subscriber that fell behind by more than the ring holds
\* and is told so by its next recv stays subscribed, and goes on with the
\* oldest message the ring still holds.
C32_LaggingSubscriberKeepsReceiving ==
    (lastOp.op = "api_recv" /\ lastOp.lagged) =>
        /\ api_rx[lastOp.client].state = "open"
        /\ api_rx[lastOp.client].next = Oldest(api_sent)

\* C33: whenever the run loop is back at its top, after a close frame, the
\* end of the stream or an error, it goes on to a new connection attempt.
C33_SessionEndLeadsToReconnect == (wsPc = "top") ~> (wsPc = "connect")

\* a connection attempt after a session that ended in a read error
C33_Witness ==
    /\ wsPc = "connect" /\ lastEnd = "read_error"
    /\ reconnect_attempts > 0 /\ lastDelay > 0

\* the (pair, dex) keys of a cache
CacheKeysOf(cch) == UNION {{<<pair, dex>> : dex \in DOMAIN cch[pair]} : pair \in DOMAIN cch}

\* what process_message changed in the cache: the (pair, dex) keys whose
\* entry is new or differs
CacheWrites(before, after) ==
    {k \in CacheKeysOf(after) : ~(k \in CacheKeysOf(before) /\ before[k[1]][k[2]] = after[k[1]][k[2]])}

\* C34: a process_message call that accepts a price writes the cache once,
\* for the pool's pair and venue and with the notification's slot, publishes
\* first one PriceUpdate with that pair, venue, price and slot, and after it
\* only the OpportunityFound of the scan; a call that accepts no price
\* writes and publishes nothing.
C34_WriteThenPriceUpdateThenScan ==
    [][ lastStep'.seq # lastStep.seq =>
          LET published == lastStep'.published
          IN  IF lastStep'.outcome = "written"
              THEN /\ Len(published) >= 1
                   /\ published[1].type = "PriceUpdate"
                   /\ \A i \in 2..Len(published) : published[i].type = "OpportunityFound"
                   /\ LET key == <<published[1].pair, published[1].dex>>
                          m == chan[1].body
                          pool == pool_lookup[subscription_id_map[m.sub]]
                      IN  /\ key = <<pool.pair, pool.dex>>
                          /\ CacheWrites(cache, cache') \subseteq {key}
                          /\ CacheKeysOf(cache) \subseteq CacheKeysOf(cache')
                          /\ cache'[key[1]][key[2]].slot = m.slot
                          /\ published[1].slot = m.slot
                          /\ published[1].price = cache'[key[1]][key[2]].price
                          /\ lastStep'.scanned = pool.pair
              ELSE /\ published = <<>>
                   /\ cache' = cache ]_vars

\* an accepted price whose scan found an opportunity
C34_Witness ==
    /\ lastStep.outcome = "written"
    /\ Len(lastStep.published) >= 2
    /\ lastStep.published[2].type = "OpportunityFound"

\* C35 as stated: an entry that a cleanup evicts is one that is_stale
\* reports as stale at that time; no entry goes from fresh to evicted.
C35_CleanupEvictsOnlyStale ==
    [][ lastOp'.op = "cleanup" =>
          \A k \in CacheKeysOf(cache) \ CacheKeysOf(cache') : IsStale(cache[k[1]][k[2]]) ]_vars

\* a detect call that returned at the price lookup or at the staleness check
StatReturnedEarly(op) ==
    \/ ~op.price_a.some
    \/ ~op.price_b.some
    \/ IsStale(op.price_a.v)
    \/ IsStale(op.price_b.v)

\* C36: a statistical detect call that finds a price missing or stale
\* returns nothing and changes nothing: no PairStatistics entry is created,
\* no spread is appended and the statistics stay as they were; and a call
\* emits no opportunity while the pair's history holds fewer than 20 samples.
C36_EarlyReturnChangesNothing ==
    [][ (lastOp'.op = "stat_detect" /\ statCalls' # statCalls) =>
          /\ StatReturnedEarly(lastOp') =>
                /\ ~lastOp'.result.some
                /\ pair_stats' = pair_stats
                /\ spreadLog' = spreadLog
          /\ lastOp'.result.some =>
                /\ lastOp'.key \in DOMAIN pair_stats'
                /\ Len(pair_stats'[lastOp'.key].spread_history) >= 20 ]_vars

\* a detect call met both prices, one of them stale, for a pair it had never
\* tracked, and left it untracked
C36_Witness ==
    /\ lastOp.op = "stat_detect"
    /\ lastOp.price_a.some /\ lastOp.price_b.some
    /\ IsStale(lastOp.price_a.v) \/ IsStale(lastOp.price_b.v)
    /\ ~lastOp.before.some
    /\ lastOp.key \notin DOMAIN pair_stats

\* C37: while a set and a cleanup run at the same time, no reader (a pair
\* whose shard is unlocked) meets a pair with an empty venue map, and once
\* set has returned the entry it wrote is in the cache for as long as it has
\* not expired, whatever the cleanup is doing or has done: get returns it.
C37_ConcurrentSetIsNotLost ==
    /\ \A pair \in DOMAIN cache :
          shard_lock[ShardOf(pair)] = "free" => DOMAIN cache[pair] # {}
    /\ (callers.set.pc = "done" /\ ~PriceDataIsStale(callers.set.data, ttl_ms)) =>
          Get(cache, callers.set.pair, callers.set.dex) = Some(callers.set.data)

\* set took its shard's lock while a cleanup was under way, a cleanup that
\* went on to evict the pair's expired entry; both have returned and the
\* written entry is there
C37_Witness ==
    /\ callers.set.pc = "done" /\ callers.set.raced
    /\ callers.cleanup.pc = "done" /\ callers.cleanup.removed > 0
    /\ ~PriceDataIsStale(callers.set.data, ttl_ms)
    /\ Get(cache, callers.set.pair, callers.set.dex) = Some(callers.set.data)

\* C38 as stated: a turn of the main loop on a message with a result field
\* whose id is outside 1..=N, 0 included, changes neither the subscription
\* map nor the cache and leaves the pipeline running; and no message with a
\* result field takes the notification path.
C38_OutOfRangeAckIsIgnored ==
    [][ (ProcStep /\ Head(chan).body.kind = "ack") =>
          /\ lastStep'.outcome \in {"ack_recorded", "ack_ignored", "panic"}
          /\ lastStep'.published = <<>>
          /\ Head(chan).body.id \notin 1..Len(subscriptions) =>
                /\ subscription_id_map' = subscription_id_map
                /\ cache' = cache
                /\ mainPc' = "running" ]_vars

\* the ways connect_and_listen returns Ok(()) and the ways it returns Err
GracefulEnds == {"close", "end_of_stream", "send_failed"}
ErrorEnds == {"connect_failed", "subscribe_failed", "read_error"}

\* C39: after a session that ended with a close frame, the end of the
\* stream or a failed forward the attempt counter is 0 and the run loop
\* goes to the next connection attempt without sleeping; a sleep happens
\* only with a counter above 0, that is after a session that ended in an
\* error.
C39_GracefulEndReconnectsAtOnce ==
    /\ (wsPc \in {"top", "connect"} /\ lastEnd \in GracefulEnds) => reconnect_attempts = 0
    /\ (wsPc = "connect" /\ lastEnd \in GracefulEnds) => lastDelay = 0
    /\ lastDelay > 0 => (reconnect_attempts > 0 /\ lastEnd \in ErrorEnds)

\* the consumer is gone, the forward failed, and the run loop is at the
\* next connection attempt, having slept nothing
C39_Witness ==
    /\ wsPc = "connect" /\ lastEnd = "send_failed"
    /\ reconnect_attempts = 0 /\ lastDelay = 0

\* the low 64 bits of a 128-bit value
LowBits(x) == x - U64 * (x \div U64)

\* C40: the liquidity of a PriceData the pipeline writes is the decoder's
\* u128 liquidity modulo 2^64, so a CLMM liquidity of 2^64 or more is stored
\* as its low 64 bits, neither saturated nor rejected; and the spatial
\* opportunity of the scan that follows has the recommended_size and the
\* confidence computed from the stored values of its two venues.
C40_LiquidityIsTruncatedTo64Bits ==
    [][ (ProcStep /\ Head(chan).body.kind = "notification"
                  /\ Head(chan).body.sub \in DOMAIN subscription_id_map) =>
          LET m == Head(chan).body
              pool == pool_lookup[subscription_id_map[m.sub]]
              decoded == Decode(pool.decoder_type, m.data)
              published == lastStep'.published
          IN  (decoded.ok /\ PriceAccepted(CalculatePrice(decoded))) =>
                 /\ lastStep'.outcome = "written"
                 /\ cache'[pool.pair][pool.dex].liquidity = LowBits(decoded.liquidity)
                 /\ cache'[pool.pair][pool.dex].liquidity < U64
                 /\ \A i \in DOMAIN published :
                       (published[i].type = "OpportunityFound"
                            /\ published[i].opp.opportunity_type = "Spatial") =>
                          LET opp == published[i].opp
                              buy == cache'[opp.token_pair][opp.buy_dex]
                              sell == cache'[opp.token_pair][opp.sell_dex]
                              least == IF buy.liquidity < sell.liquidity THEN buy.liquidity
                                       ELSE sell.liquidity
                          IN  /\ opp.recommended_size = (least * 5) \div 100
                              /\ opp.confidence = calculate_confidence(buy, sell) ]_vars

\* both venues hold a liquidity that was 2^64 or more on chain, stored as its
\* low bits, and the scan after the write found a spatial opportunity
\* between them
C40_Witness ==
    /\ lastStep.outcome = "written"
    /\ Len(lastStep.published) >= 2
    /\ lastStep.published[2].type = "OpportunityFound"
    /\ lastStep.published[2].opp.opportunity_type = "Spatial"
    /\ "SOL-USDC" \in DOMAIN cache
    /\ DOMAIN cache["SOL-USDC"] = {"orca", "Orca"}
    /\ cache["SOL-USDC"]["orca"].liquidity = 0
    /\ cache["SOL-USDC"]["Orca"].liquidity \in {2, 3}

====
